---- MODULE Spec2Model ----
(***************************************************************************)
(* The authority of the collaborative word grid: the SQLite store          *)
(* (server/database.js), the Socket.IO / HTTP handlers (server/server.js)  *)
(* and the external image call (server/gemini.js).                         *)
(*                                                                         *)
(* Node runs every handler to its first await without interleaving, and    *)
(* better-sqlite3 is synchronous, so one action is one handler run (for    *)
(* the two generation handlers: one run up to the await of the external    *)
(* call, and one run from its return or throw to the end of the handler).  *)
(*                                                                         *)
(* The pages (app.js, grid-canvas.js) are modelled beside it: the state of *)
(* each page, its handlers for the server's events, its keyboard, paste    *)
(* and button handlers, and of WordGrid the Grouping Engine, the camera    *)
(* with its animation, and the pointer.  A socket carries events in order  *)
(* in both directions.                                                     *)
(***************************************************************************)
EXTENDS Integers, Sequences, FiniteSets, TLC

(***************************************************************************)
(* Bounds of the model.  CAPACITY and gridCols stand for the 10000 cells   *)
(* and the 100 columns of the source, scaled down so that a grid fills up. *)
(***************************************************************************)
CAPACITY == 3
gridCols == 2
MaxBatch == 2
MaxGenerations == 2
MaxCycles == 1
MaxTime == 1
MaxInFlight == 1
MaxBuffer == 2
MantissaBits == 3
MaxFrames == 5

(* Program constants. *)
GENERATION_COOLDOWN == 0
PromptMaxWords == 3000
PromptSnapshotChars == 500

(* The values the handlers are fed. *)
Sockets == {"s1", "s2"}
HTTP == "http"
UserIds == {"u1", "u2"}
USER_COLORS == {"#6366F1", "#8B5CF6"}
WordSet == {"cat", "hat"}
GroupIds == {"", "g1"}
GeneratedGroupIds == {"k1"}
ImagePaths == {"/images/1.png", "/images/2.png"}
CallErrors == {"Gemini API not initialized", "No image data in response"}
null == "<null>"

VARIABLES
    state,              \* table state: key -> value (both TEXT)
    words,              \* table words: position (PRIMARY KEY) -> row
    users,              \* table users: id (PRIMARY KEY) -> row
    image_history,      \* table image_history: id (AUTOINCREMENT, 1..) -> row
    connectedUsers,     \* Map socketId -> { userId, color }
    sockets,            \* the sockets whose connection is open
    isGenerating,       \* the single-flight flag
    lastGenerationTime, \* Date.now() of the last accepted generation
    calls,              \* the external image calls awaited, one record each
    handled,            \* the event the last handler run, of the server or
                        \* of a page, was given
    emitted,            \* what the last handler run emitted, in order
    client,             \* app.js / grid-canvas.js: the state of each page
    inbox,              \* per socket: events sent by the server, not yet handled
    outbox              \* per socket: events sent by the page, not yet handled

db == <<state, words, users, image_history>>
authority == <<state, words, users, image_history, connectedUsers, sockets,
               isGenerating, lastGenerationTime, calls>>
server == <<state, words, users, image_history, connectedUsers, sockets,
            isGenerating, lastGenerationTime, calls, handled, emitted>>
pages == <<client, inbox, outbox>>
vars == <<state, words, users, image_history, connectedUsers, sockets,
          isGenerating, lastGenerationTime, calls, handled, emitted,
          client, inbox, outbox>>

----------------------------------------------------------------------------
(* JavaScript's String(n) and parseInt(s, 10) on the decimal TEXT the state *)
(* table keeps.                                                             *)

Digit(d) ==
    CASE d = 0 -> "0" [] d = 1 -> "1" [] d = 2 -> "2" [] d = 3 -> "3"
      [] d = 4 -> "4" [] d = 5 -> "5" [] d = 6 -> "6" [] d = 7 -> "7"
      [] d = 8 -> "8" [] d = 9 -> "9"

DigitValue(c) ==
    CASE c = "0" -> 0 [] c = "1" -> 1 [] c = "2" -> 2 [] c = "3" -> 3
      [] c = "4" -> 4 [] c = "5" -> 5 [] c = "6" -> 6 [] c = "7" -> 7
      [] c = "8" -> 8 [] c = "9" -> 9

RECURSIVE String(_)
String(n) ==
    IF n < 10 THEN Digit(n) ELSE String(n \div 10) \o Digit(n % 10)

RECURSIVE parseIntFrom(_, _)
parseIntFrom(s, acc) ==
    IF s = "" THEN acc
    ELSE parseIntFrom(Tail(s), 10 * acc + DigitValue(Head(s)))

parseInt(s) == parseIntFrom(s, 0)

Min(a, b) == IF a < b THEN a ELSE b

----------------------------------------------------------------------------
(* database.js: the reads. *)

getNextPosition(st) == parseInt(st["next_position"])

getCurrentImage(st) == st["current_image"]

getWordCount(ws) == Cardinality(DOMAIN ws)

(* The positions of a table in ascending order (ORDER BY position ASC). *)
RECURSIVE Ascending(_)
Ascending(S) ==
    IF S = {} THEN <<>>
    ELSE LET m == CHOOSE x \in S : \A y \in S : x <= y
         IN  <<m>> \o Ascending(S \ {m})

Row(position) == position \div gridCols
Col(position) == position % gridCols

----------------------------------------------------------------------------
(* database.js: the writes of one transaction.  A transaction works on    *)
(* D = [state, words, users]; a throw inside db.transaction rolls back,   *)
(* so a failed claim hands back the D it was given.                       *)

(* Mutant: the color is drawn and written on every call. *)
getOrCreateUser_Redraws(us, userId, color) ==
    [u \in DOMAIN us \cup {userId} |->
        IF u = userId
        THEN [color |-> color,
              words_contributed |-> IF u \in DOMAIN us
                                    THEN us[u].words_contributed ELSE 0]
        ELSE us[u]]

(* SELECT, and INSERT INTO users with a color drawn by Math.random() when *)
(* the id is new.                                                         *)
getOrCreateUser(us, userId, color) ==
    IF userId \in DOMAIN us THEN us
    ELSE [u \in DOMAIN us \cup {userId} |->
            IF u = userId THEN [color |-> color, words_contributed |-> 0]
            ELSE us[u]]

(* INSERT INTO words succeeds unless the PRIMARY KEY is taken or a        *)
(* NOT NULL column is given null.                                         *)
InsertAllowed(ws, position, word, userId) ==
    /\ position \notin DOMAIN ws
    /\ word # null
    /\ userId # null

InsertWord(ws, position, row) ==
    [p \in DOMAIN ws \cup {position} |-> IF p = position THEN row ELSE ws[p]]

WordRow(word, userId, color, groupId) ==
    [word |-> word, user_id |-> userId, user_color |-> color, group_id |-> groupId]

Placed(position, word, userId, color, groupId) ==
    [position |-> position, row |-> Row(position), col |-> Col(position),
     word |-> word, user_id |-> userId, user_color |-> color, group_id |-> groupId]

Thrown(D, message) ==
    [ok |-> FALSE, error |-> message, db |-> D, results |-> <<>>]

Returned(D, results) ==
    [ok |-> TRUE, error |-> "", db |-> D, results |-> results]

(* Mutant: the capacity test is off by one. *)
gridFull_OffByOne(position) == position > CAPACITY

(* The capacity test of both claims: position >= 10000. *)
gridFull(position) == position >= CAPACITY

(* Mutant: the counter is stepped once more than the cells written. *)
advanceNextPosition_Skips(st, position) ==
    [st EXCEPT !["next_position"] = String(position + 1)]

(* UPDATE state SET value = String(position) WHERE key = 'next_position' *)
advanceNextPosition(st, position) ==
    [st EXCEPT !["next_position"] = String(position)]

(* claimNextPosition(userId, word, groupId); color and fresh are the draws *)
(* of getOrCreateUser and generateGroupId.                                 *)
claimNextPosition(D, userId, word, groupId, color, fresh) ==
    LET position == parseInt(D.state["next_position"])
    IN  IF gridFull(position) THEN Thrown(D, "Grid is full")
        ELSE
          LET us1  == getOrCreateUser(D.users, userId, color)
              user == us1[userId]
              gid  == IF groupId = "" THEN fresh ELSE groupId
          IN  IF ~InsertAllowed(D.words, position, word, userId)
              THEN Thrown(D, "constraint failed")
              ELSE Returned(
                     [state |-> advanceNextPosition(D.state, position + 1),
                      words |-> InsertWord(D.words, position,
                                           WordRow(word, userId, user.color, gid)),
                      users |-> [us1 EXCEPT ![userId].words_contributed = @ + 1]],
                     <<Placed(position, word, userId, user.color, gid)>>)

(* The for loop of claimMultiplePositions: acc = [ok, position, words,    *)
(* results] after the words before ws.                                    *)
RECURSIVE claimLoop(_, _, _, _, _)
claimLoop(ws, userId, color, gid, acc) ==
    IF ws = <<>> \/ ~acc.ok \/ gridFull(acc.position) THEN acc
    ELSE IF ~InsertAllowed(acc.words, acc.position, Head(ws), userId)
         THEN [acc EXCEPT !.ok = FALSE]
         ELSE claimLoop(Tail(ws), userId, color, gid,
                [ok       |-> TRUE,
                 position |-> acc.position + 1,
                 words    |-> InsertWord(acc.words, acc.position,
                                         WordRow(Head(ws), userId, color, gid)),
                 results  |-> Append(acc.results,
                                     Placed(acc.position, Head(ws), userId, color, gid))])

(* Mutant: the writes are made without a transaction, so that a throw *)
(* leaves what was written before it.                                 *)
claimMultiplePositions_NoRollback(D, userId, ws, groupId, color, fresh) ==
    LET position == parseInt(D.state["next_position"])
        us1  == getOrCreateUser(D.users, userId, color)
        user == us1[userId]
        gid  == IF groupId = "" THEN fresh ELSE groupId
        done == claimLoop(ws, userId, user.color, gid,
                          [ok |-> TRUE, position |-> position,
                           words |-> D.words, results |-> <<>>])
    IN  IF ~done.ok
        THEN Thrown([state |-> D.state, words |-> done.words, users |-> us1],
                    "constraint failed")
        ELSE Returned(
               [state |-> advanceNextPosition(D.state, done.position),
                words |-> done.words,
                users |-> [us1 EXCEPT ![userId].words_contributed =
                                          @ + Len(done.results)]],
               done.results)

(* Mutant: the counter grows by the words submitted, not by the cells *)
(* written.                                                           *)
claimMultiplePositions_CountsSubmitted(D, userId, ws, groupId, color, fresh) ==
    LET position == parseInt(D.state["next_position"])
        us1  == getOrCreateUser(D.users, userId, color)
        user == us1[userId]
        gid  == IF groupId = "" THEN fresh ELSE groupId
        done == claimLoop(ws, userId, user.color, gid,
                          [ok |-> TRUE, position |-> position,
                           words |-> D.words, results |-> <<>>])
    IN  IF ~done.ok THEN Thrown(D, "constraint failed")
        ELSE Returned(
               [state |-> advanceNextPosition(D.state, done.position),
                words |-> done.words,
                users |-> [us1 EXCEPT ![userId].words_contributed = @ + Len(ws)]],
               done.results)

(* Mutant: the words of a batch are written last word first. *)
claimMultiplePositions_Reversed(D, userId, ws, groupId, color, fresh) ==
    LET position == parseInt(D.state["next_position"])
        us1  == getOrCreateUser(D.users, userId, color)
        user == us1[userId]
        gid  == IF groupId = "" THEN fresh ELSE groupId
        done == claimLoop([i \in 1..Len(ws) |-> ws[Len(ws) + 1 - i]],
                          userId, user.color, gid,
                          [ok |-> TRUE, position |-> position,
                           words |-> D.words, results |-> <<>>])
    IN  IF ~done.ok THEN Thrown(D, "constraint failed")
        ELSE Returned(
               [state |-> advanceNextPosition(D.state, done.position),
                words |-> done.words,
                users |-> [us1 EXCEPT ![userId].words_contributed =
                                          @ + Len(done.results)]],
               done.results)

(* claimMultiplePositions(userId, words, groupId). *)
claimMultiplePositions(D, userId, ws, groupId, color, fresh) ==
    LET position == parseInt(D.state["next_position"])
        us1  == getOrCreateUser(D.users, userId, color)
        user == us1[userId]
        gid  == IF groupId = "" THEN fresh ELSE groupId
        done == claimLoop(ws, userId, user.color, gid,
                          [ok |-> TRUE, position |-> position,
                           words |-> D.words, results |-> <<>>])
    IN  IF ~done.ok THEN Thrown(D, "constraint failed")
        ELSE Returned(
               [state |-> advanceNextPosition(D.state, done.position),
                words |-> done.words,
                users |-> [us1 EXCEPT ![userId].words_contributed =
                                          @ + Len(done.results)]],
               done.results)

(* Mutant: the rows come back newest first. *)
getAllWords_Descending(ws) ==
    LET ps == Ascending(DOMAIN ws)
    IN  [i \in 1..Len(ps) |-> [position |-> ps[Len(ps) + 1 - i]] @@ ws[ps[Len(ps) + 1 - i]]]

(* All rows ordered by position, as getAllWords returns them. *)
getAllWords(ws) ==
    LET ps == Ascending(DOMAIN ws)
    IN  [i \in 1..Len(ps) |-> [position |-> ps[i]] @@ ws[ps[i]]]

RECURSIVE Join(_)
Join(seq) ==
    IF seq = <<>> THEN ""
    ELSE IF Len(seq) = 1 THEN seq[1]
    ELSE seq[1] \o " " \o Join(Tail(seq))

(* The last maxWords words, oldest first, joined by blanks. *)
getPromptText(ws, maxWords) ==
    LET ps   == Ascending(DOMAIN ws)
        from == IF Len(ps) > maxWords THEN Len(ps) - maxWords + 1 ELSE 1
    IN  Join([i \in 1..(Len(ps) - from + 1) |-> ws[ps[from + i - 1]].word])

(* Mutant: ORDER BY position DESC. *)
getFullPromptText_Descending(ws) ==
    LET ps == Ascending(DOMAIN ws)
    IN  Join([i \in 1..Len(ps) |-> ws[ps[Len(ps) + 1 - i]].word])

getFullPromptText(ws) ==
    LET ps == Ascending(DOMAIN ws)
    IN  Join([i \in 1..Len(ps) |-> ws[ps[i]].word])

substring(s, from, to) == SubSeq(s, from + 1, Min(Len(s), to))

addImageHistory(h, imagePath, promptSnapshot, wordCount, status) ==
    Append(h, [image_path |-> imagePath, prompt_snapshot |-> promptSnapshot,
               word_count |-> wordCount, status |-> status])

updateImageHistory(h, id, imagePath, status) ==
    [i \in DOMAIN h |->
        IF i = id THEN [h[i] EXCEPT !.image_path = imagePath, !.status = status]
        ELSE h[i]]

(* Mutant: the new path is not written to the state table. *)
setCurrentImage_Keeps(st, imagePath) == st

setCurrentImage(st, imagePath) == [st EXCEPT !["current_image"] = imagePath]

----------------------------------------------------------------------------
(* server.js: what a handler emits.  io.emit reaches every open socket,   *)
(* socket.emit the handler's own socket; res.json answers the HTTP caller.*)

Emit(to, type, data) == [to |-> to, type |-> type, data |-> data]

ioEmit(type, data) == Emit(sockets, type, data)

socketEmit(s, type, data) == Emit({s}, type, data)

resJson(status, data) == Emit({HTTP}, "http-response", [status |-> status] @@ data)

Handled(type, s, data) == [type |-> type, socket |-> s, data |-> data]

D0 == [state |-> state, words |-> words, users |-> users]

Commit(D) ==
    /\ state' = D.state
    /\ words' = D.words
    /\ users' = D.users

(* Mutant: the snapshot is sent without the cells. *)
wordsWithGrid_None(ws) == <<>>

wordsWithGrid(ws) ==
    LET all == getAllWords(ws)
    IN  [i \in 1..Len(all) |->
            all[i] @@ [row |-> Row(all[i].position), col |-> Col(all[i].position)]]

----------------------------------------------------------------------------
(* grid-canvas.js: WordGrid.words is a Map, which keeps its keys in the   *)
(* order of their first insertion: a sequence of entries [pos, data].     *)

has(ws, position) == \E i \in DOMAIN ws : ws[i].pos = position

get(ws, position) == ws[CHOOSE i \in DOMAIN ws : ws[i].pos = position].data

(* WordGrid.setWord(position, wordData) *)
setWord(ws, position, wordData) ==
    LET data == wordData @@ [row |-> position \div gridCols,
                             col |-> position % gridCols]
    IN  IF has(ws, position)
        THEN [i \in DOMAIN ws |->
                IF ws[i].pos = position THEN [pos |-> position, data |-> data]
                ELSE ws[i]]
        ELSE Append(ws, [pos |-> position, data |-> data])

(* Mutant: the entries are taken in the order the Map holds them. *)
sorted_InsertionOrder(ws) == ws

(* Array.from(this.words.entries()).sort((a, b) => a[0] - b[0]) *)
sorted(ws) ==
    LET ps == Ascending({ws[i].pos : i \in DOMAIN ws})
    IN  [i \in 1..Len(ps) |-> [pos |-> ps[i], data |-> get(ws, ps[i])]]

(* if (gid): null and the empty string are falsy. *)
truthy(gid) == gid # "" /\ gid # null

cellOf(pos, data) ==
    [pos |-> pos, row |-> data.row, col |-> data.col, word |-> data.word]

(* Mutant: the look-ahead goes on into the next row. *)
sameRun_AcrossRows(next, gid, row) == next.group_id = gid

(* The test that lets the look-ahead go on: same group_id, same row. *)
sameRun(next, gid, row) == next.group_id = gid /\ next.row = row

(* The while loop of _buildGroups: acc = [cells, assigned]. *)
RECURSIVE lookAhead(_, _, _, _, _)
lookAhead(ws, nextPos, gid, row, acc) ==
    IF ~has(ws, nextPos) THEN acc
    ELSE LET next == get(ws, nextPos)
         IN  IF ~sameRun(next, gid, row) THEN acc
             ELSE lookAhead(ws, nextPos + 1, gid, row,
                    [cells    |-> Append(acc.cells, cellOf(nextPos, next)),
                     assigned |-> acc.assigned \cup {nextPos}])

(* Mutant: a cell without a group id looks ahead like any other. *)
startsRun_Always(gid) == TRUE

(* Mutant: no cell looks ahead. *)
startsRun_Never(gid) == FALSE

(* if (gid) { look ahead } *)
startsRun(gid) == truthy(gid)

(* The for loop of _buildGroups over the entries from the i-th on. *)
RECURSIVE groupLoop(_, _, _, _, _)
groupLoop(ws, entries, i, assigned, groups) ==
    IF i > Len(entries) THEN groups
    ELSE LET pos  == entries[i].pos
             data == entries[i].data
         IN  IF pos \in assigned
             THEN groupLoop(ws, entries, i + 1, assigned, groups)
             ELSE LET gid   == data.group_id
                      first == [cells    |-> <<cellOf(pos, data)>>,
                                assigned |-> assigned \cup {pos}]
                      run   == IF startsRun(gid)
                               THEN lookAhead(ws, pos + 1, gid, data.row, first)
                               ELSE first
                  IN  groupLoop(ws, entries, i + 1, run.assigned,
                        Append(groups,
                          [group_id |-> gid,
                           color    |-> data.user_color,
                           cells    |-> run.cells,
                           row      |-> data.row,
                           startCol |-> run.cells[1].col,
                           endCol   |-> run.cells[Len(run.cells)].col]))

(* WordGrid._buildGroups(); setWord drops the cache, so the groups are    *)
(* always those of the current Map.                                       *)
buildGroups(ws) == groupLoop(ws, sorted(ws), 1, {}, <<>>)

----------------------------------------------------------------------------
(* grid-canvas.js: the view of WordGrid, its camera and its pointer state. *)
(*                                                                         *)
(* A JavaScript number is an IEEE 754 double: every operation is rounded   *)
(* to the nearest number of 53 significant bits, ties to even.  The        *)
(* numbers of the model are the integers of MantissaBits significant bits, *)
(* and fl rounds to them in the same way.                                  *)

Abs(n) == IF n < 0 THEN -n ELSE n

(* The distance between neighbouring numbers at the size of a. *)
RECURSIVE Quantum(_)
Quantum(a) == IF a < 2 ^ MantissaBits THEN 1 ELSE 2 * Quantum(a \div 2)

(* The nearest number of the model, ties to even.  The rounding is a      *)
(* function of the integers, so that its argument is worked out once.     *)
Rounded[n \in Int] ==
    LET a  == Abs(n)
        q  == Quantum(a)
        lo == (a \div q) * q
        r  == a - lo
        m  == IF 2 * r < q THEN lo
              ELSE IF 2 * r > q THEN lo + q
              ELSE IF (lo \div q) % 2 = 0 THEN lo ELSE lo + q
    IN  IF n < 0 THEN -m ELSE m

fl(n) == Rounded[n]

(* n / d for d > 0, rounded to the nearest integer, ties to even. *)
Quotient[p \in Int \X Int] ==
    LET n  == p[1]
        d  == p[2]
        lo == n \div d
        r  == n - lo * d
    IN  IF 2 * r < d THEN lo
        ELSE IF 2 * r > d THEN lo + 1
        ELSE IF lo % 2 = 0 THEN lo ELSE lo + 1

nearest(n, d) == Quotient[<<n, d>>]

(* The geometry, scaled down with the grid: the cells of the source are   *)
(* 64 by 28 pixels, its zoom runs from getMinZoom() to 20 in steps of     *)
(* e^0.1, and the canvas lies to the right of the image panel.  Zoom is   *)
(* counted in units of the smallest zoom; the zoom of jumpToCursor, 1 in  *)
(* the source, lies between the two ends.                                 *)
cellWidth == 2
cellHeight == 2
gridRows == (CAPACITY + gridCols - 1) \div gridCols
canvasWidth == 8
canvasHeight == 8
canvasLeft == 1
canvasTop == 0
minZoom == 1
maxZoom == 4
zoomStep == 2
jumpZoom == 2
dragThreshold == 3

(* Durations in frames: 200 ms for ensureCursorVisible, 400 ms for        *)
(* jumpToCursor.                                                          *)
ensureDuration == 2
jumpDuration == 4

(* centerOnPosition and animateTo: the camera that puts the middle of the *)
(* cell at the middle of the canvas.                                      *)
cameraOver(position, zoom) ==
    LET row    == position \div gridCols
        col    == position % gridCols
        worldX == fl(fl(col * cellWidth) + cellWidth \div 2)
        worldY == fl(fl(row * cellHeight) + cellHeight \div 2)
    IN  [x    |-> fl(canvasWidth \div 2 - fl(worldX * zoom)),
         y    |-> fl(canvasHeight \div 2 - fl(worldY * zoom)),
         zoom |-> zoom]

(* The constructor and init(): the zoom starts at 1, which is also the    *)
(* zoom of jumpToCursor, and init() centers the camera on cell 0.         *)
(* cameraAnim is a sequence, empty for null.                              *)
WordGridLoaded ==
    [camera       |-> cameraOver(0, jumpZoom),
     cameraAnim   |-> <<>>,
     now          |-> 0,
     isDragging   |-> FALSE,
     dragStart    |-> [x |-> 0, y |-> 0],
     mouseDownPos |-> [x |-> 0, y |-> 0],
     hasDragged   |-> FALSE,
     onCellClick  |-> null,
     dispatched   |-> <<>>]

(* zoom || this.camera.zoom: null is passed as 0, which is as falsy. *)
noZoom == 0
truthyZoom(zoom) == zoom # 0

(* WordGrid.centerOnPosition(position) *)
centerOnPosition(v, position) ==
    [v EXCEPT !.camera = cameraOver(position, v.camera.zoom)]

(* WordGrid.animateTo(position, zoom, duration) *)
animateTo(v, position, zoom, duration) ==
    [v EXCEPT !.cameraAnim =
        <<[from     |-> v.camera,
           to       |-> cameraOver(position,
                                   IF truthyZoom(zoom) THEN zoom ELSE v.camera.zoom),
           start    |-> v.now,
           duration |-> duration]>>]

(* from + (to - from) * eased, with eased = 1 - (1 - t)^3 and              *)
(* t = elapsed / duration: the product is rounded once.                    *)
interpolate(from, to, elapsed, duration) ==
    LET left == duration - elapsed
    IN  fl(from + fl(nearest(fl(to - from) * (duration ^ 3 - left ^ 3),
                             duration ^ 3)))

(* Mutant: the animation is not dropped when it has run its time. *)
tickCameraAnimation_NeverStops(v) ==
    IF v.cameraAnim = <<>> THEN v
    ELSE LET anim    == v.cameraAnim[1]
             elapsed == Min(v.now - anim.start, anim.duration)
             at(f)   == interpolate(anim.from[f], anim.to[f], elapsed, anim.duration)
         IN  [v EXCEPT !.camera = [x |-> at("x"), y |-> at("y"), zoom |-> at("zoom")]]

(* WordGrid.tickCameraAnimation(): t = Math.min(1, elapsed / duration). *)
tickCameraAnimation(v) ==
    IF v.cameraAnim = <<>> THEN v
    ELSE LET anim    == v.cameraAnim[1]
             elapsed == Min(v.now - anim.start, anim.duration)
             at(f)   == interpolate(anim.from[f], anim.to[f], elapsed, anim.duration)
         IN  [v EXCEPT !.camera = [x |-> at("x"), y |-> at("y"), zoom |-> at("zoom")],
                       !.cameraAnim = IF elapsed >= anim.duration THEN <<>> ELSE @]

(* WordGrid.getCellAtScreen(screenX, screenY): a sequence, empty for null. *)
getCellAtScreen(v, screenX, screenY) ==
    LET col == (screenX - v.camera.x) \div (v.camera.zoom * cellWidth)
        row == (screenY - v.camera.y) \div (v.camera.zoom * cellHeight)
    IN  IF col >= 0 /\ col < gridCols /\ row >= 0 /\ row < gridRows
        THEN <<[row |-> row, col |-> col, position |-> row * gridCols + col]>>
        ELSE <<>>

(* WordGrid.onMouseDown(e) *)
onMouseDown(v, e) ==
    [v EXCEPT !.cameraAnim   = <<>>,
              !.hasDragged   = FALSE,
              !.mouseDownPos = [x |-> e.clientX, y |-> e.clientY],
              !.isDragging   = TRUE,
              !.dragStart    = [x |-> fl(e.clientX - v.camera.x),
                                y |-> fl(e.clientY - v.camera.y)],
              !.dispatched   = <<>>]

(* Math.abs(dx) > 3 || Math.abs(dy) > 3 *)
exceeds(dx, dy) == Abs(dx) > dragThreshold \/ Abs(dy) > dragThreshold

(* WordGrid.onMouseMove(e) *)
onMouseMove(v, e) ==
    LET dx == e.clientX - v.mouseDownPos.x
        dy == e.clientY - v.mouseDownPos.y
    IN  [v EXCEPT !.hasDragged = @ \/ exceeds(dx, dy),
                  !.camera = IF v.isDragging
                             THEN [@ EXCEPT !.x = fl(e.clientX - v.dragStart.x),
                                            !.y = fl(e.clientY - v.dragStart.y)]
                             ELSE @,
                  !.dispatched = <<>>]

(* WordGrid.onMouseUp(e): onCellClick is called only when it is set. *)
onMouseUp(v, e) ==
    [v EXCEPT !.isDragging = FALSE,
              !.dispatched =
                 IF ~v.hasDragged /\ v.onCellClick # null
                 THEN getCellAtScreen(v, e.clientX - canvasLeft, e.clientY - canvasTop)
                 ELSE <<>>]

(* WordGrid.onWheel(e): up is deltaY < 0. *)
onWheel(v, e) ==
    LET mouseX == e.clientX - canvasLeft
        mouseY == e.clientY - canvasTop
        old    == v.camera
        zoomed == IF e.up THEN fl(old.zoom * zoomStep)
                  ELSE fl(nearest(old.zoom, zoomStep))
        zoom   == IF zoomed < minZoom THEN minZoom
                  ELSE IF zoomed > maxZoom THEN maxZoom ELSE zoomed
        worldX == fl(nearest(fl(mouseX - old.x), old.zoom))
        worldY == fl(nearest(fl(mouseY - old.y), old.zoom))
    IN  [v EXCEPT !.cameraAnim = <<>>,
                  !.camera = [x    |-> fl(mouseX - fl(worldX * zoom)),
                              y    |-> fl(mouseY - fl(worldY * zoom)),
                              zoom |-> zoom],
                  !.dispatched = <<>>]

(* The callback of requestAnimationFrame, dt frames after the last one. *)
animate(v, dt) ==
    tickCameraAnimation([v EXCEPT !.now = @ + dt, !.dispatched = <<>>])

----------------------------------------------------------------------------
(* app.js: one page per socket.  The page outlives its connection.        *)

DefaultUserColor == "#60A5FA"

(* newGroupId(): the clock and Math.random(); the n-th id a page draws is *)
(* taken to differ from every id drawn before and from those of others.   *)
newGroupId(s, n) == s \o "-" \o String(n)

UserOf(s) == IF s = "s1" THEN "u1" ELSE "u2"

PageLoaded(s) ==
    [words          |-> <<>>,
     cursorPosition |-> 0,
     currentWord    |-> "",
     currentGroupId |-> newGroupId(s, 0),
     groupIdsDrawn  |-> 1,
     isGenerating   |-> FALSE,
     hasNewWords    |-> FALSE,
     userColor      |-> DefaultUserColor,
     grid           |-> WordGridLoaded]

wordData(w) ==
    [word |-> w.word, user_id |-> w.user_id,
     user_color |-> w.user_color, group_id |-> w.group_id]

RECURSIVE loadWords(_, _)
loadWords(ws, list) ==
    IF list = <<>> THEN ws
    ELSE loadWords(setWord(ws, Head(list).position, wordData(Head(list))), Tail(list))

(* socket.on('initial-state') *)
onInitialState(c, data) ==
    [c EXCEPT !.words = loadWords(@, data.words),
              !.cursorPosition = data.nextPosition,
              !.grid = centerOnPosition(@, data.nextPosition)]

(* Mutant: the cursor follows every event, also one behind it. *)
advanceCursor_Always(cursorPosition, position) == position + 1

(* if (data.position >= cursorPosition) cursorPosition = data.position + 1 *)
advanceCursor(cursorPosition, position) ==
    IF position >= cursorPosition THEN position + 1 ELSE cursorPosition

(* socket.on('word-placed') *)
onWordPlaced(c, data) ==
    [c EXCEPT !.words = setWord(@, data.position, wordData(data)),
              !.cursorPosition = advanceCursor(@, data.position),
              !.hasNewWords = TRUE]

(* socket.on('user-registered') *)
onUserRegistered(c, data) == [c EXCEPT !.userColor = data.color]

(* socket.on('generation-started') *)
onGenerationStarted(c, data) ==
    [c EXCEPT !.isGenerating = TRUE, !.hasNewWords = FALSE]

(* socket.on('generation-complete') *)
onGenerationComplete(s, c, data) ==
    [c EXCEPT !.isGenerating = FALSE,
              !.currentGroupId = newGroupId(s, c.groupIdsDrawn),
              !.groupIdsDrawn = @ + 1]

(* socket.on('generation-failed') *)
onGenerationFailed(c, data) == [c EXCEPT !.isGenerating = FALSE]

(* The page's handler for one event of the server; users-update,          *)
(* cursor-leave and error change the document only.                       *)
on(s, c, e) ==
    CASE e.type = "initial-state"       -> onInitialState(c, e.data)
      [] e.type = "word-placed"         -> onWordPlaced(c, e.data)
      [] e.type = "user-registered"     -> onUserRegistered(c, e.data)
      [] e.type = "generation-started"  -> onGenerationStarted(c, e.data)
      [] e.type = "generation-complete" -> onGenerationComplete(s, c, e.data)
      [] e.type = "generation-failed"   -> onGenerationFailed(c, e.data)
      [] OTHER                          -> c

Message(type, data) == [type |-> type, data |-> data]

(* The white space of String.prototype.trim and of \s.  nbsp stands for   *)
(* U+00A0, which a keyboard can type as one key (e.key.length === 1).     *)
nbsp == "\t"

isWhitespace(ch) == ch \in {" ", "\n", nbsp}

RECURSIVE trimStart(_)
trimStart(str) ==
    IF str # "" /\ isWhitespace(Head(str)) THEN trimStart(Tail(str)) ELSE str

RECURSIVE trimEnd(_)
trimEnd(str) ==
    IF str # "" /\ isWhitespace(SubSeq(str, Len(str), Len(str)))
    THEN trimEnd(SubSeq(str, 1, Len(str) - 1))
    ELSE str

(* String.prototype.trim() *)
trim(str) == trimEnd(trimStart(str))

(* text.split(/\s+/): the pieces between the maximal runs of white space, *)
(* the empty ones at either end included.  cur is the piece being read,   *)
(* inRun says that the last character read was white space.               *)
RECURSIVE splitFrom(_, _, _, _)
splitFrom(str, cur, inRun, acc) ==
    IF str = "" THEN Append(acc, cur)
    ELSE IF isWhitespace(Head(str))
         THEN IF inRun THEN splitFrom(Tail(str), cur, TRUE, acc)
              ELSE splitFrom(Tail(str), "", TRUE, Append(acc, cur))
         ELSE splitFrom(Tail(str), cur \o Head(str), FALSE, acc)

split(str) == splitFrom(str, "", FALSE, <<>>)

(* Mutant: the words typed so far are not put before the pasted ones. *)
batchOf_NoPrepend(currentWord, ws) == ws

(* if (currentWord.trim()) words.unshift(currentWord.trim()) *)
batchOf(currentWord, ws) ==
    IF trim(currentWord) # "" THEN <<trim(currentWord)>> \o ws ELSE ws

(* document.addEventListener('paste'): the result is [c, sent]. *)
pasteHandler(s, c, clipboard) ==
    LET text == trim(clipboard)
        ws   == SelectSeq(split(text), LAMBDA w : Len(w) > 0)
    IN  IF c.isGenerating \/ text = "" \/ Len(ws) = 0
        THEN [c |-> c, sent |-> <<>>]
        ELSE IF Len(ws) = 1
        THEN [c |-> [c EXCEPT !.currentWord = @ \o ws[1]], sent |-> <<>>]
        ELSE [c    |-> [c EXCEPT !.currentWord = ""],
              sent |-> <<Message("submit-words",
                                 [userId |-> UserOf(s),
                                  words |-> batchOf(c.currentWord, ws),
                                  groupId |-> c.currentGroupId])>>]

(* submitCurrentWord(): the emit and the optimistic update.  The result   *)
(* is [c, sent].                                                          *)
submitCurrentWord(s, c) ==
    LET word == trim(c.currentWord)
    IN  IF word = "" \/ c.isGenerating THEN [c |-> c, sent |-> <<>>]
        ELSE [c    |-> [c EXCEPT
                          !.words = setWord(@, c.cursorPosition,
                                      [word |-> word, user_id |-> UserOf(s),
                                       user_color |-> c.userColor,
                                       group_id |-> c.currentGroupId]),
                          !.cursorPosition = @ + 1,
                          !.grid = animateTo(@, c.cursorPosition + 1, noZoom,
                                             ensureDuration),
                          !.currentWord = "",
                          !.hasNewWords = TRUE],
              sent |-> <<Message("submit-word",
                                 [userId |-> UserOf(s), word |-> word,
                                  groupId |-> c.currentGroupId])>>]

(* document.addEventListener('keydown') for one key, pressed without ctrl *)
(* or meta and away from input elements.  The result is [c, sent].        *)
keydown(s, c, key) ==
    IF key = "Backspace"
    THEN [c    |-> [c EXCEPT !.currentWord =
                      IF Len(@) > 0 THEN SubSeq(@, 1, Len(@) - 1) ELSE @],
          sent |-> <<>>]
    ELSE IF c.isGenerating THEN [c |-> c, sent |-> <<>>]
    ELSE IF key = " " \/ key = "Enter" THEN submitCurrentWord(s, c)
    ELSE IF Len(key) = 1
         THEN [c |-> [c EXCEPT !.currentWord = @ \o key], sent |-> <<>>]
         ELSE [c |-> c, sent |-> <<>>]

(* The events whose handler changes the state of the page. *)
PageEvents == {"initial-state", "word-placed", "user-registered",
               "generation-started", "generation-complete", "generation-failed"}

(* The network: what a handler run emitted is queued, in order, for every *)
(* socket it was emitted to.  The events a page handles without a change  *)
(* of its state are left out of the queue.                                *)
Deliver(ib, events) ==
    [s \in Sockets |->
        ib[s] \o SelectSeq(events, LAMBDA e : s \in e.to /\ e.type \in PageEvents)]

(* The server side of a step: the page is not involved. *)
Queued == inbox' = Deliver(inbox, emitted')

Init ==
    /\ state = [k \in {"next_position", "current_image"} |->
                   IF k = "next_position" THEN "0" ELSE ""]
    /\ words = <<>>
    /\ users = <<>>
    /\ image_history = <<>>
    /\ connectedUsers = <<>>
    /\ sockets = {}
    /\ isGenerating = FALSE
    /\ lastGenerationTime = 0
    /\ calls = {}
    /\ handled = Handled("listen", "", <<>>)
    /\ emitted = <<>>
    /\ client = [s \in Sockets |-> PageLoaded(s)]
    /\ inbox = [s \in Sockets |-> <<>>]
    /\ outbox = [s \in Sockets |-> <<>>]

(* io.on('connection'): the snapshot goes to the new socket. *)
Connect(s) ==
    /\ s \notin sockets
    /\ sockets' = sockets \cup {s}
    /\ handled' = Handled("connection", s, <<>>)
    /\ emitted' = <<socketEmit(s, "initial-state",
                      [words        |-> wordsWithGrid(words),
                       nextPosition |-> getNextPosition(state),
                       currentImage |-> getCurrentImage(state),
                       wordCount    |-> getWordCount(words),
                       onlineUsers  |-> Cardinality(DOMAIN connectedUsers) + 1])>>
    /\ UNCHANGED <<state, words, users, image_history, connectedUsers,
                   isGenerating, lastGenerationTime, calls>>

(* socket.on('register') *)
Register(s, userId, color) ==
    /\ s \in sockets
    /\ LET us1  == getOrCreateUser(users, userId, color)
           user == us1[userId]
           cu   == [c \in DOMAIN connectedUsers \cup {s} |->
                      IF c = s THEN [userId |-> userId, color |-> user.color]
                      ELSE connectedUsers[c]]
       IN  /\ users' = us1
           /\ connectedUsers' = cu
           /\ emitted' = <<ioEmit("users-update", [count |-> Cardinality(DOMAIN cu)]),
                           socketEmit(s, "user-registered", [color |-> user.color])>>
    /\ handled' = Handled("register", s, [userId |-> userId])
    /\ UNCHANGED <<state, words, image_history, sockets,
                   isGenerating, lastGenerationTime, calls>>

(* Mutant: the catch block reports the error with io.emit. *)
emitClaim_BroadcastsError(s, claim) ==
    IF claim.ok
    THEN [i \in 1..Len(claim.results) |-> ioEmit("word-placed", claim.results[i])]
    ELSE <<ioEmit("error", [message |-> claim.error])>>

(* Mutant: the results go out with socket.broadcast.emit, which leaves    *)
(* the sender out.                                                        *)
emitClaim_SkipsSender(s, claim) ==
    IF claim.ok
    THEN [i \in 1..Len(claim.results) |->
            Emit(sockets \ {s}, "word-placed", claim.results[i])]
    ELSE <<socketEmit(s, "error", [message |-> claim.error])>>

(* The try / catch both submit handlers share: every result is broadcast  *)
(* in order, a throw is reported to the sender alone.                     *)
emitClaim(s, claim) ==
    IF claim.ok
    THEN [i \in 1..Len(claim.results) |-> ioEmit("word-placed", claim.results[i])]
    ELSE <<socketEmit(s, "error", [message |-> claim.error])>>

(* Mutant: while an image call is awaited the claim is put off. *)
SubmitWord_Deferred(s, userId, word, groupId, color, fresh) ==
    /\ s \in sockets
    /\ LET claim == IF isGenerating THEN Returned(D0, <<>>)
                    ELSE claimNextPosition(D0, userId, word, groupId, color, fresh)
       IN  /\ Commit(claim.db)
           /\ emitted' = emitClaim(s, claim)
    /\ handled' = Handled("submit-word", s,
                          [userId |-> userId, word |-> word, groupId |-> groupId])
    /\ UNCHANGED <<image_history, connectedUsers, sockets,
                   isGenerating, lastGenerationTime, calls>>

(* socket.on('submit-word') *)
SubmitWord(s, userId, word, groupId, color, fresh) ==
    /\ s \in sockets
    /\ LET claim == claimNextPosition(D0, userId, word, groupId, color, fresh)
       IN  /\ Commit(claim.db)
           /\ emitted' = emitClaim(s, claim)
    /\ handled' = Handled("submit-word", s,
                          [userId |-> userId, word |-> word, groupId |-> groupId])
    /\ UNCHANGED <<image_history, connectedUsers, sockets,
                   isGenerating, lastGenerationTime, calls>>

(* socket.on('submit-words') *)
SubmitWords(s, userId, ws, groupId, color, fresh) ==
    /\ s \in sockets
    /\ LET claim == claimMultiplePositions(D0, userId, ws, groupId, color, fresh)
       IN  /\ Commit(claim.db)
           /\ emitted' = emitClaim(s, claim)
    /\ handled' = Handled("submit-words", s,
                          [userId |-> userId, words |-> ws, groupId |-> groupId])
    /\ UNCHANGED <<image_history, connectedUsers, sockets,
                   isGenerating, lastGenerationTime, calls>>

(* socket.on('disconnect'): the socket has left when the handler runs. *)
Disconnect(s) ==
    /\ s \in sockets
    /\ sockets' = sockets \ {s}
    /\ connectedUsers' = [c \in DOMAIN connectedUsers \ {s} |-> connectedUsers[c]]
    /\ emitted' = <<Emit(sockets', "users-update",
                         [count |-> Cardinality(DOMAIN connectedUsers')]),
                    Emit(sockets', "cursor-leave", [id |-> s])>>
    /\ handled' = Handled("disconnect", s, <<>>)
    /\ UNCHANGED <<state, words, users, image_history,
                   isGenerating, lastGenerationTime, calls>>

----------------------------------------------------------------------------
(* server.js: generation.  Both entry points, socket.on('request-generate')*)
(* and POST /api/generate, test and set the same isGenerating flag.        *)

ceilSeconds(ms) == (ms + 999) \div 1000

(* gemini.js: the request a call sends to the model.  generateFromText    *)
(* sends the prompt alone; evolveImage sends the image file with it, and  *)
(* hands over to generateFromText when fs.existsSync does not find the    *)
(* file (the images directory is kept apart from the store).              *)
generateFromText == "text-to-image"

evolveImage(found) == IF found THEN "image-to-image" ELSE generateFromText

(* Mutant: the handler calls generateFromText whatever current_image is. *)
imageCall_AlwaysFromText(currentImage, found) ==
    [fn |-> "generateFromText", request |-> generateFromText]

(* if (currentImage) await gemini.evolveImage(currentImage, promptText)   *)
(* else await gemini.generateFromText(promptText)                         *)
imageCall(currentImage, found) ==
    IF currentImage # ""
    THEN [fn |-> "evolveImage", request |-> evolveImage(found)]
    ELSE [fn |-> "generateFromText", request |-> generateFromText]

(* Mutant: the flag is not set before the await. *)
startGeneration_FlagUnset(via, now, wordCount, first) ==
    LET promptText   == getPromptText(words, PromptMaxWords)
        currentImage == getCurrentImage(state)
    IN  /\ isGenerating' = isGenerating
        /\ lastGenerationTime' = now
        /\ emitted' = first \o <<ioEmit("generation-started", [wordCount |-> wordCount])>>
        /\ image_history' = addImageHistory(image_history, null,
                                substring(promptText, 0, PromptSnapshotChars),
                                wordCount, "generating")
        /\ \E found \in BOOLEAN :
              calls' = calls \cup
                {[id        |-> Len(image_history) + 1,
                  via       |-> via,
                  wordCount |-> wordCount] @@ imageCall(currentImage, found)}

(* The part both handlers run once a request is let through: the flag,    *)
(* the broadcast, the history row, and the call they then await.          *)
startGeneration(via, now, wordCount, first) ==
    LET promptText   == getPromptText(words, PromptMaxWords)
        currentImage == getCurrentImage(state)
    IN  /\ isGenerating' = TRUE
        /\ lastGenerationTime' = now
        /\ emitted' = first \o <<ioEmit("generation-started", [wordCount |-> wordCount])>>
        /\ image_history' = addImageHistory(image_history, null,
                                substring(promptText, 0, PromptSnapshotChars),
                                wordCount, "generating")
        /\ \E found \in BOOLEAN :
              calls' = calls \cup
                {[id        |-> Len(image_history) + 1,
                  via       |-> via,
                  wordCount |-> wordCount] @@ imageCall(currentImage, found)}

(* Mutant: a refusal goes out with io.emit. *)
RequestGenerate_BroadcastsRefusal(s, now) ==
    /\ s \in sockets
    /\ handled' = Handled("request-generate", s, <<>>)
    /\ LET cooldownRemaining == GENERATION_COOLDOWN - (now - lastGenerationTime)
           wordCount == getWordCount(words)
           refuse(message) ==
               /\ emitted' = <<ioEmit("generation-failed", [error |-> message])>>
               /\ UNCHANGED <<isGenerating, lastGenerationTime, image_history, calls>>
       IN  IF isGenerating THEN refuse("Generation already in progress")
           ELSE IF cooldownRemaining > 0
                THEN refuse("Please wait " \o String(ceilSeconds(cooldownRemaining))
                            \o "s before generating again")
           ELSE IF wordCount = 0 THEN refuse("No words to generate from")
           ELSE startGeneration("socket", now, wordCount, <<>>)
    /\ UNCHANGED <<state, words, users, connectedUsers, sockets>>

(* socket.on('request-generate'), up to the await. *)
RequestGenerate(s, now) ==
    /\ s \in sockets
    /\ handled' = Handled("request-generate", s, <<>>)
    /\ LET cooldownRemaining == GENERATION_COOLDOWN - (now - lastGenerationTime)
           wordCount == getWordCount(words)
           refuse(message) ==
               /\ emitted' = <<socketEmit(s, "generation-failed", [error |-> message])>>
               /\ UNCHANGED <<isGenerating, lastGenerationTime, image_history, calls>>
       IN  IF isGenerating THEN refuse("Generation already in progress")
           ELSE IF cooldownRemaining > 0
                THEN refuse("Please wait " \o String(ceilSeconds(cooldownRemaining))
                            \o "s before generating again")
           ELSE IF wordCount = 0 THEN refuse("No words to generate from")
           ELSE startGeneration("socket", now, wordCount, <<>>)
    /\ UNCHANGED <<state, words, users, connectedUsers, sockets>>

(* POST /api/generate, up to the await. *)
ApiGenerate(now) ==
    /\ handled' = Handled("POST /api/generate", HTTP, <<>>)
    /\ LET cooldownRemaining == GENERATION_COOLDOWN - (now - lastGenerationTime)
           wordCount == getWordCount(words)
           refuse(status, data) ==
               /\ emitted' = <<resJson(status, data)>>
               /\ UNCHANGED <<isGenerating, lastGenerationTime, image_history, calls>>
       IN  IF isGenerating
           THEN refuse(429, [error |-> "Generation already in progress"])
           ELSE IF cooldownRemaining > 0
                THEN refuse(429, [error |-> "Cooldown active",
                                  cooldownRemaining |-> ceilSeconds(cooldownRemaining)])
           ELSE IF wordCount = 0
                THEN refuse(400, [error |-> "No words to generate from"])
           ELSE startGeneration("http", now, wordCount,
                                <<resJson(200, [status |-> "started"])>>)
    /\ UNCHANGED <<state, words, users, connectedUsers, sockets>>

(* Mutant: the grid is started over once its words are in an image. *)
GenerationComplete_ClearsGrid(c, imagePath) ==
    /\ c \in calls
    /\ calls' = calls \ {c}
    /\ state' = advanceNextPosition(setCurrentImage(state, imagePath), 0)
    /\ words' = <<>>
    /\ image_history' = updateImageHistory(image_history, c.id, imagePath, "complete")
    /\ emitted' = <<ioEmit("generation-complete",
                           [imagePath |-> imagePath, wordCount |-> c.wordCount])>>
    /\ isGenerating' = FALSE
    /\ handled' = Handled("call-returned", c.via, [id |-> c.id, imagePath |-> imagePath])
    /\ UNCHANGED <<users, connectedUsers, sockets, lastGenerationTime>>

(* The awaited call returns imagePath: the rest of the try block, then     *)
(* finally.                                                                *)
GenerationComplete(c, imagePath) ==
    /\ c \in calls
    /\ calls' = calls \ {c}
    /\ state' = setCurrentImage(state, imagePath)
    /\ image_history' = updateImageHistory(image_history, c.id, imagePath, "complete")
    /\ emitted' = <<ioEmit("generation-complete",
                           [imagePath |-> imagePath, wordCount |-> c.wordCount])>>
    /\ isGenerating' = FALSE
    /\ handled' = Handled("call-returned", c.via, [id |-> c.id, imagePath |-> imagePath])
    /\ UNCHANGED <<words, users, connectedUsers, sockets, lastGenerationTime>>

(* Mutant: the flag is cleared after the try block, not in a finally. *)
GenerationFailed_NoFinally(c, message) ==
    /\ c \in calls
    /\ calls' = calls \ {c}
    /\ emitted' = <<ioEmit("generation-failed", [error |-> message])>>
    /\ isGenerating' = isGenerating
    /\ handled' = Handled("call-threw", c.via, [id |-> c.id, error |-> message])
    /\ UNCHANGED <<state, words, users, image_history, connectedUsers, sockets,
                   lastGenerationTime>>

(* The awaited call throws: catch, then finally. *)
GenerationFailed(c, message) ==
    /\ c \in calls
    /\ calls' = calls \ {c}
    /\ emitted' = <<ioEmit("generation-failed", [error |-> message])>>
    /\ isGenerating' = FALSE
    /\ handled' = Handled("call-threw", c.via, [id |-> c.id, error |-> message])
    /\ UNCHANGED <<state, words, users, image_history, connectedUsers, sockets,
                   lastGenerationTime>>

----------------------------------------------------------------------------
(* Math.random() is drawn only where the code draws it: a color when the  *)
(* user row is new, a group id when the request carries none.             *)
ColorDraw(u, colors) == IF u \in DOMAIN users THEN {null} ELSE colors
GroupDraw(g) == IF g = "" THEN GeneratedGroupIds ELSE {null}

(* Date.now() never runs backwards: a handler reads the time of the last  *)
(* accepted generation or a later one.                                    *)
Clock == lastGenerationTime..MaxTime

(* image_history only grows; the model stops asking at n rows. *)
MayGenerate(n) == Len(image_history) < n

(* The whole authority, every handler.  Each client sends its own userId  *)
(* (localStorage 'mti-user-id'); the first types one word under the group *)
(* it drew, the second another and sends no group.                        *)
OneColor == {"#6366F1"}
OnePath == {"/images/1.png"}
OneError == {"Gemini API not initialized"}
WordOf(s) == IF s = "s1" THEN "cat" ELSE "hat"
GroupOf(s) == IF s = "s1" THEN "g1" ELSE ""

Next ==
    \/ \E s \in Sockets : Connect(s) /\ UNCHANGED pages
    \/ \E s \in Sockets : \E color \in ColorDraw(UserOf(s), OneColor) :
          Register(s, UserOf(s), color) /\ UNCHANGED pages
    \/ \E s \in Sockets :
          \E color \in ColorDraw(UserOf(s), OneColor), fresh \in GroupDraw(GroupOf(s)) :
            SubmitWord(s, UserOf(s), WordOf(s), GroupOf(s), color, fresh)
            /\ UNCHANGED pages
    \/ \E s \in Sockets, n \in 0..MaxBatch :
          \E color \in ColorDraw(UserOf(s), OneColor), fresh \in GroupDraw(GroupOf(s)) :
            SubmitWords(s, UserOf(s), [i \in 1..n |-> WordOf(s)], GroupOf(s), color, fresh)
            /\ UNCHANGED pages
    \/ \E s \in Sockets : Disconnect(s) /\ UNCHANGED pages
    \/ \E s \in Sockets : MayGenerate(MaxCycles) /\ RequestGenerate(s, lastGenerationTime)
          /\ UNCHANGED pages
    \/ MayGenerate(MaxCycles) /\ ApiGenerate(lastGenerationTime)
          /\ UNCHANGED pages
    \/ \E c \in calls, imagePath \in OnePath : GenerationComplete(c, imagePath)
          /\ UNCHANGED pages
    \/ \E c \in calls, message \in OneError : GenerationFailed(c, message)
          /\ UNCHANGED pages

Spec == Init /\ [][Next]_vars

(* The allocator under every submission: any userId and any words from    *)
(* either socket.                                                         *)
Batches == UNION {[1..n -> WordSet] : n \in 0..MaxBatch}

NextAlloc ==
    \/ \E s \in Sockets : Connect(s) /\ UNCHANGED pages
    \/ \E s \in Sockets, w \in WordSet :
          \E color \in ColorDraw(UserOf(s), USER_COLORS), fresh \in GroupDraw(GroupOf(s)) :
            SubmitWord(s, UserOf(s), w, GroupOf(s), color, fresh)
            /\ UNCHANGED pages
    \/ \E s \in Sockets, ws \in Batches :
          \E color \in ColorDraw(UserOf(s), USER_COLORS), fresh \in GroupDraw(GroupOf(s)) :
            SubmitWords(s, UserOf(s), ws, GroupOf(s), color, fresh)
            /\ UNCHANGED pages
    \/ \E s \in Sockets : Disconnect(s) /\ UNCHANGED pages

SpecAlloc == Init /\ [][NextAlloc]_vars

(* Generation under both entry points, with one client typing. *)
NextGen ==
    \/ \E s \in Sockets : Connect(s) /\ UNCHANGED pages
    \/ \E color \in ColorDraw("u1", USER_COLORS) : SubmitWord("s1", "u1", "cat", "g1", color, null)
          /\ UNCHANGED pages
    \/ \E s \in Sockets : Disconnect(s) /\ UNCHANGED pages
    \/ \E s \in Sockets, now \in Clock :
          MayGenerate(MaxGenerations) /\ RequestGenerate(s, now)
          /\ UNCHANGED pages
    \/ \E now \in Clock : MayGenerate(MaxGenerations) /\ ApiGenerate(now)
          /\ UNCHANGED pages
    \/ \E c \in calls, imagePath \in ImagePaths : GenerationComplete(c, imagePath)
          /\ UNCHANGED pages
    \/ \E c \in calls, message \in CallErrors : GenerationFailed(c, message)
          /\ UNCHANGED pages

SpecGen == Init /\ [][NextGen]_vars

(* The promise of the image call is settled in the end: it resolves or it *)
(* rejects, and Node then runs the rest of the handler that awaited it.   *)
CallSettles ==
    \/ \E c \in calls, imagePath \in ImagePaths : GenerationComplete(c, imagePath)
          /\ UNCHANGED pages
    \/ \E c \in calls, message \in CallErrors : GenerationFailed(c, message)
          /\ UNCHANGED pages

SpecGenLive == SpecGen /\ WF_vars(CallSettles)

(* The allocator under payloads no client of this repository sends but    *)
(* any Socket.IO peer can: a word that is the empty string, alone or in a *)
(* batch.                                                                 *)
RawWords == {"", "cat"}
RawBatches == UNION {[1..n -> RawWords] : n \in 0..MaxBatch}

NextRaw ==
    \/ \E s \in Sockets : Connect(s) /\ UNCHANGED pages
    \/ \E s \in Sockets, w \in RawWords :
          \E color \in ColorDraw(UserOf(s), OneColor), fresh \in GroupDraw(GroupOf(s)) :
            SubmitWord(s, UserOf(s), w, GroupOf(s), color, fresh)
            /\ UNCHANGED pages
    \/ \E s \in Sockets, ws \in RawBatches :
          \E color \in ColorDraw(UserOf(s), OneColor), fresh \in GroupDraw(GroupOf(s)) :
            SubmitWords(s, UserOf(s), ws, GroupOf(s), color, fresh)
            /\ UNCHANGED pages
    \/ \E s \in Sockets : Disconnect(s) /\ UNCHANGED pages

SpecRaw == Init /\ [][NextRaw]_vars

(* The allocator under requests with a word missing: undefined in an      *)
(* array travels as null, and the word column is NOT NULL.                *)
MissingWords == {null, "cat"}
MissingBatches == UNION {[1..n -> MissingWords] : n \in 0..MaxBatch}
NextMissing ==
    \/ \E s \in Sockets : Connect(s) /\ UNCHANGED pages
    \/ \E s \in Sockets, w \in MissingWords :
          \E color \in ColorDraw(UserOf(s), OneColor), fresh \in GroupDraw(GroupOf(s)) :
            SubmitWord(s, UserOf(s), w, GroupOf(s), color, fresh)
            /\ UNCHANGED pages
    \/ \E s \in Sockets, ws \in MissingBatches :
          \E color \in ColorDraw(UserOf(s), OneColor), fresh \in GroupDraw(GroupOf(s)) :
            SubmitWords(s, UserOf(s), ws, GroupOf(s), color, fresh)
            /\ UNCHANGED pages
    \/ \E s \in Sockets : Disconnect(s) /\ UNCHANGED pages

SpecMissing == Init /\ [][NextMissing]_vars

(* The users table under every way a user row comes to be: register or a  *)
(* claim, under either userId on each socket (two tabs of one browser     *)
(* share the userId of its localStorage) and with any color drawn; the    *)
(* first socket sends single words, the second batches.                   *)
NextUsers ==
    \/ \E s \in Sockets : Connect(s) /\ UNCHANGED pages
    \/ \E s \in Sockets, u \in UserIds : \E color \in ColorDraw(u, USER_COLORS) :
          Register(s, u, color) /\ UNCHANGED pages
    \/ \E u \in UserIds : \E color \in ColorDraw(u, USER_COLORS) :
          SubmitWord("s1", u, "cat", "g1", color, null) /\ UNCHANGED pages
    \/ \E u \in UserIds, n \in 0..MaxBatch :
          \E color \in ColorDraw(u, USER_COLORS) :
            SubmitWords("s2", u, [i \in 1..n |-> "hat"], "g1", color, null)
            /\ UNCHANGED pages
    \/ \E s \in Sockets : Disconnect(s) /\ UNCHANGED pages

SpecUsers == Init /\ [][NextUsers]_vars

(* The pages and the authority together.  A page sends register when its *)
(* socket connects; what it sends and what is sent to it waits in the     *)
(* socket's queues, in order, until the other side's handler runs.  In    *)
(* NextClient the first page types its word, the second pastes two.       *)
PageConnects(s) ==
    /\ Connect(s)
    /\ Queued
    /\ outbox' = [outbox EXCEPT ![s] =
                    Append(@, Message("register", [userId |-> UserOf(s)]))]
    /\ UNCHANGED client

(* The connection closes with nothing in flight on it; the page stays. *)
PageDisconnects(s) ==
    /\ inbox[s] = <<>>
    /\ outbox[s] = <<>>
    /\ Disconnect(s)
    /\ Queued
    /\ UNCHANGED <<client, outbox>>

Sent(s, type) == outbox[s] # <<>> /\ Head(outbox[s]).type = type

Taken(s) ==
    /\ outbox' = [outbox EXCEPT ![s] = Tail(@)]
    /\ Queued
    /\ UNCHANGED client

ServerRegister(s) ==
    /\ Sent(s, "register")
    /\ LET data == Head(outbox[s]).data
       IN  \E color \in ColorDraw(data.userId, OneColor) :
              Register(s, data.userId, color)
    /\ Taken(s)

ServerSubmitWord(s) ==
    /\ Sent(s, "submit-word")
    /\ LET data == Head(outbox[s]).data
       IN  \E color \in ColorDraw(data.userId, OneColor),
              fresh \in GroupDraw(data.groupId) :
              SubmitWord(s, data.userId, data.word, data.groupId, color, fresh)
    /\ Taken(s)

ServerSubmitWords(s) ==
    /\ Sent(s, "submit-words")
    /\ LET data == Head(outbox[s]).data
       IN  \E color \in ColorDraw(data.userId, OneColor),
              fresh \in GroupDraw(data.groupId) :
              SubmitWords(s, data.userId, data.words, data.groupId, color, fresh)
    /\ Taken(s)

ServerRequestGenerate(s) ==
    /\ Sent(s, "request-generate")
    /\ RequestGenerate(s, lastGenerationTime)
    /\ Taken(s)

ServerCallReturns(c, imagePath) ==
    /\ GenerationComplete(c, imagePath)
    /\ Queued
    /\ UNCHANGED <<client, outbox>>

ServerCallThrows(c, message) ==
    /\ GenerationFailed(c, message)
    /\ Queued
    /\ UNCHANGED <<client, outbox>>

(* The page's handler for the oldest event waiting for it. *)
PageHandles(s) ==
    /\ inbox[s] # <<>>
    /\ client' = [client EXCEPT ![s] = on(s, @, Head(inbox[s]))]
    /\ inbox' = [inbox EXCEPT ![s] = Tail(@)]
    /\ handled' = Handled(Head(inbox[s]).type, s, Head(inbox[s]).data)
    /\ UNCHANGED <<authority, emitted, outbox>>

(* keydown for the letters of a word, then for the blank that submits it. *)
PageTypes(s, word) ==
    /\ s \in sockets
    /\ ~client[s].isGenerating
    /\ LET done == submitCurrentWord(s, [client[s] EXCEPT !.currentWord = @ \o word])
       IN  /\ client' = [client EXCEPT ![s] = done.c]
           /\ outbox' = [outbox EXCEPT ![s] = @ \o done.sent]
    /\ handled' = Handled("keydown", s, [word |-> word])
    /\ UNCHANGED <<authority, emitted, inbox>>

(* One keydown. *)
PageKeydown(s, key) ==
    /\ s \in sockets
    /\ LET done == keydown(s, client[s], key)
       IN  /\ client' = [client EXCEPT ![s] = done.c]
           /\ outbox' = [outbox EXCEPT ![s] = @ \o done.sent]
    /\ handled' = Handled("keydown", s, [key |-> key])
    /\ UNCHANGED <<authority, emitted, inbox>>

(* One paste of the clipboard's text. *)
PagePastes(s, clipboard) ==
    /\ s \in sockets
    /\ LET done == pasteHandler(s, client[s], clipboard)
       IN  /\ client' = [client EXCEPT ![s] = done.c]
           /\ outbox' = [outbox EXCEPT ![s] = @ \o done.sent]
    /\ handled' = Handled("paste", s, [text |-> clipboard])
    /\ UNCHANGED <<authority, emitted, inbox>>

(* A click on the generate button, which shows only while hasNewWords and *)
(* not isGenerating.                                                      *)
PageClicksGenerate(s) ==
    /\ s \in sockets
    /\ client[s].hasNewWords
    /\ ~client[s].isGenerating
    /\ LET done == submitCurrentWord(s, client[s])
       IN  /\ client' = [client EXCEPT ![s] = done.c]
           /\ outbox' = [outbox EXCEPT ![s] =
                           @ \o done.sent \o <<Message("request-generate", <<>>)>>]
    /\ handled' = Handled("click", s, <<>>)
    /\ UNCHANGED <<authority, emitted, inbox>>

(* The model stops a page from sending while MaxInFlight of its events    *)
(* wait, and from typing once its cursor has left the grid; the server    *)
(* takes up an event only while no page has more than MaxInFlight events  *)
(* waiting for it.                                                        *)
MaySend(s) == Len(outbox[s]) < MaxInFlight
MayType(s) == MaySend(s) /\ client[s].cursorPosition <= CAPACITY
MayQueue == \A s \in Sockets : Len(inbox[s]) <= MaxInFlight

NextClient ==
    \/ \E s \in Sockets : PageConnects(s)
    \/ \E s \in Sockets : MayQueue /\ ServerRegister(s)
    \/ \E s \in Sockets : MayQueue /\ ServerSubmitWord(s)
    \/ \E s \in Sockets : PageHandles(s)
    \/ MayType("s1") /\ PageTypes("s1", WordOf("s1"))
    \/ MaySend("s2") /\ PagePastes("s2", "hat cat")
    \/ \E s \in Sockets : MayQueue /\ ServerSubmitWords(s)

SpecClient == Init /\ [][NextClient]_vars

(* One page typing and asking for images, the other looking on, on a      *)
(* network that is fast beside a typist and an image call: a page types   *)
(* or clicks only when it has handled all that was sent to it, and the    *)
(* image call ends only when nothing is in flight.  The first page's      *)
(* connection may close and open again.                                   *)
Quiet == \A s \in Sockets : inbox[s] = <<>> /\ outbox[s] = <<>>

NextBaseline ==
    \/ \E s \in Sockets : PageConnects(s)
    \/ \E s \in Sockets : MayQueue /\ ServerRegister(s)
    \/ \E s \in Sockets : MayQueue /\ ServerSubmitWord(s)
    \/ \E s \in Sockets : PageHandles(s)
    \/ MayType("s1") /\ inbox["s1"] = <<>> /\ PageTypes("s1", WordOf("s1"))
    \/ PageDisconnects("s1")
    \/ \E s \in Sockets :
          MaySend(s) /\ inbox[s] = <<>> /\ PageClicksGenerate(s)
    \/ \E s \in Sockets :
          MayQueue /\ MayGenerate(MaxCycles) /\ ServerRequestGenerate(s)
    \/ \E c \in calls, imagePath \in OnePath :
          Quiet /\ ServerCallReturns(c, imagePath)
    \/ \E c \in calls, message \in OneError :
          Quiet /\ ServerCallThrows(c, message)

SpecBaseline == Init /\ [][NextBaseline]_vars

(* One page at its keyboard: single keys, among them the blank and a      *)
(* no-break space, pastes of one word, of several words and of white      *)
(* space alone, and the generate button, with the authority behind it.    *)
(* The page is at its keyboard only when nothing is in flight, and the    *)
(* model stops it from adding to a buffer of MaxBuffer characters.        *)
Keys == {"c", nbsp, " ", "Backspace"}
Clipboards == {"hat", "hat cat", " hat \n cat ", " \n"}
MayBuffer(s) == Len(client[s].currentWord) < MaxBuffer

NextPaste ==
    \/ PageConnects("s1")
    \/ ServerRegister("s1")
    \/ ServerSubmitWord("s1")
    \/ ServerSubmitWords("s1")
    \/ PageHandles("s1")
    \/ \E key \in Keys :
          Quiet /\ MayType("s1") /\ MayBuffer("s1") /\ PageKeydown("s1", key)
    \/ \E clipboard \in Clipboards :
          Quiet /\ MayBuffer("s1") /\ PagePastes("s1", clipboard)
    \/ Quiet /\ PageClicksGenerate("s1")
    \/ MayGenerate(MaxCycles) /\ ServerRequestGenerate("s1")
    \/ \E c \in calls, imagePath \in OnePath : ServerCallReturns(c, imagePath)

SpecPaste == Init /\ [][NextPaste]_vars

(* Two pages asking for images at the same time: the first types a word   *)
(* when nothing is in flight, either clicks Generate whenever its button  *)
(* shows, and the server takes up every request, the ones it refuses      *)
(* included.  It accepts MaxCycles of them.                               *)
NextLock ==
    \/ \E s \in Sockets : PageConnects(s)
    \/ \E s \in Sockets : MayQueue /\ ServerRegister(s)
    \/ \E s \in Sockets : MayQueue /\ ServerSubmitWord(s)
    \/ \E s \in Sockets : PageHandles(s)
    \/ Quiet /\ MayType("s1") /\ PageTypes("s1", WordOf("s1"))
    \/ \E s \in Sockets : MaySend(s) /\ PageClicksGenerate(s)
    \/ \E s \in Sockets :
          MayQueue /\ (isGenerating \/ MayGenerate(MaxCycles))
          /\ ServerRequestGenerate(s)
    \/ \E c \in calls, imagePath \in OnePath : ServerCallReturns(c, imagePath)
    \/ \E c \in calls, message \in OneError : ServerCallThrows(c, message)

SpecLock == Init /\ [][NextLock]_vars

(* The events of the view.  Each is one handler of the page or of its     *)
(* WordGrid; the server is not involved.                                  *)
ViewBecomes(s, v, type, data) ==
    /\ client' = [client EXCEPT ![s].grid = v]
    /\ handled' = Handled(type, s, data)
    /\ UNCHANGED <<authority, emitted, inbox, outbox>>

(* requestAnimationFrame: the next frame, or the one after a skipped one. *)
Frame(s, dt) ==
    ViewBecomes(s, animate(client[s].grid, dt), "frame", [dt |-> dt])

(* A call of animateTo: ensureCursorVisible() after a word is submitted,  *)
(* with no zoom, or jumpToCursor() on a click of the find-cursor button.  *)
AnimateTo(s, position, zoom, duration) ==
    ViewBecomes(s, animateTo(client[s].grid, position, zoom, duration),
                "animateTo", [position |-> position, zoom |-> zoom,
                              duration |-> duration])

MouseDown(s, e) == ViewBecomes(s, onMouseDown(client[s].grid, e), "mousedown", e)

MouseMove(s, e) == ViewBecomes(s, onMouseMove(client[s].grid, e), "mousemove", e)

MouseUp(s, e) == ViewBecomes(s, onMouseUp(client[s].grid, e), "mouseup", e)

Wheel(s, e) == ViewBecomes(s, onWheel(client[s].grid, e), "wheel", e)

(* The camera of one page: its cursor is made visible or jumped to,      *)
(* wherever it stands, the mouse is pressed and the wheel is turned while *)
(* the frames go by.  The model counts MaxFrames frames and starts no     *)
(* animation that could not end by then.                                  *)
MayAnimate(s, duration) == client[s].grid.now + duration <= MaxFrames
CursorPositions == {0, CAPACITY - 1}
AnimateCalls == {[zoom |-> noZoom, duration |-> ensureDuration],
                 [zoom |-> jumpZoom, duration |-> jumpDuration]}
Presses == {[clientX |-> 2, clientY |-> 1]}
Turns == {[clientX |-> 2, clientY |-> 1, up |-> TRUE],
          [clientX |-> 2, clientY |-> 1, up |-> FALSE]}
FrameDue(s) == client[s].grid.now < MaxFrames

NextCamera ==
    \/ \E position \in CursorPositions, call \in AnimateCalls :
          MayAnimate("s1", call.duration)
          /\ AnimateTo("s1", position, call.zoom, call.duration)
    \/ \E dt \in 1..2 : FrameDue("s1") /\ Frame("s1", dt)
    \/ \E e \in Presses : MouseDown("s1", e)
    \/ \E e \in Turns : Wheel("s1", e)

SpecCamera == Init /\ [][NextCamera]_vars

(* The browser keeps calling the frame callback. *)
SpecCameraLive ==
    SpecCamera
    /\ WF_vars(\E dt \in 1..2 : FrameDue("s1") /\ Frame("s1", dt))

(* The pointer on the canvas of one page: the mouse is pressed, moved and  *)
(* released at points on and off the grid, some within the threshold of   *)
(* each other and some beyond it.  A drag moves the camera with the       *)
(* pointer; the model keeps the camera within MaxPan of the canvas.       *)
MaxPan == 5
Pointers == [clientX : {2, 5, 6}, clientY : {4, 8}]
MayPan(s, e) ==
    LET v == onMouseMove(client[s].grid, e)
    IN  Abs(v.camera.x) <= MaxPan /\ Abs(v.camera.y) <= MaxPan

NextPointer ==
    \/ \E e \in Pointers : MouseDown("s1", e)
    \/ \E e \in Pointers : MayPan("s1", e) /\ MouseMove("s1", e)
    \/ \E e \in Pointers : MouseUp("s1", e)

SpecPointer == Init /\ [][NextPointer]_vars

(* The Grouping Engine under every Map: the first page is given setWord   *)
(* calls in any order, for any cell and with any group id, a later call   *)
(* replacing what an earlier one put in the cell; the second page is one  *)
(* that has just loaded the same cells from a snapshot, which lists them  *)
(* by ascending position.  Cells hold "cat" and "hat" in turn.            *)
GridPositions == 0..(CAPACITY - 1)
GridGroupIds == {null, "", "g1", "k1"}
GridData(position) ==
    [word : {IF position % 2 = 0 THEN "cat" ELSE "hat"}, user_id : {"u1"},
     user_color : OneColor, group_id : GridGroupIds]

snapshotOf(ws) ==
    LET ps == Ascending({ws[i].pos : i \in DOMAIN ws})
    IN  [i \in 1..Len(ps) |-> [position |-> ps[i]] @@ get(ws, ps[i])]

SetWord(position, data) ==
    LET ws1 == setWord(client["s1"].words, position, data)
    IN  /\ client' = [client EXCEPT
                        !["s1"].words = ws1,
                        !["s2"].words = loadWords(<<>>, snapshotOf(ws1))]
        /\ UNCHANGED <<server, inbox, outbox>>

NextGrid ==
    \E position \in GridPositions :
        \E data \in GridData(position) : SetWord(position, data)

SpecGrid == Init /\ [][NextGrid]_vars

----------------------------------------------------------------------------
(* The claims. *)

Positions == DOMAIN words

UsersOfCells == {words[p].user_id : p \in Positions}

(* C1: under every interleaving of single and batch claims of both       *)
(* clients, the positions of the committed cells are exactly 0 .. N-1 for *)
(* the N cells committed (none twice, none skipped), and N is what the    *)
(* counter says.                                                          *)
C1_PositionsGapFree ==
    /\ Positions = 0..(Cardinality(Positions) - 1)
    /\ getNextPosition(state) = Cardinality(Positions)

(* Both clients have cells, and the last ones came from one batch that   *)
(* was committed whole.                                                   *)
C1_Witness ==
    /\ Cardinality(UsersOfCells) = 2
    /\ handled.type = "submit-words"
    /\ Len(handled.data.words) = 2
    /\ Len(emitted) = 2

(* C2: a committed cell keeps its word, userId, userColor and groupId and *)
(* is never removed, whichever handler runs.                              *)
C2_CellsImmutable ==
    [][\A p \in Positions : p \in DOMAIN words' /\ words'[p] = words[p]]_vars

(* Two cells of different users are in the store after a registration, a  *)
(* generation and a disconnect.                                           *)
C2_Witness ==
    /\ Cardinality(UsersOfCells) = 2
    /\ DOMAIN connectedUsers # {}
    /\ Len(image_history) = 1
    /\ image_history[1].status = "complete"
    /\ handled.type = "disconnect"

NextPosition == getNextPosition(state)

GridFullError(s) == socketEmit(s, "error", [message |-> "Grid is full"])

(* C3: a batch of more words than the k = CAPACITY - nextPosition cells   *)
(* left commits exactly k cells, the first k words in order, and leaves   *)
(* nextPosition = CAPACITY; and when a client's batch of MaxBatch words   *)
(* follows another client's batch of MaxBatch words into the empty grid,  *)
(* the grid ends with CAPACITY cells, the second batch alone cut short.   *)
C3_BatchTruncated ==
    [][/\ (/\ handled'.type = "submit-words"
           /\ CAPACITY - NextPosition < Len(handled'.data.words))
          => LET k == CAPACITY - NextPosition
             IN  /\ DOMAIN words' \ Positions = NextPosition..(CAPACITY - 1)
                 /\ \A i \in 1..k :
                       words'[NextPosition + i - 1].word = handled'.data.words[i]
                 /\ Len(emitted') = k
                 /\ getNextPosition(state') = CAPACITY
       /\ (/\ handled.type = "submit-words"
           /\ handled'.type = "submit-words"
           /\ handled'.data.userId # handled.data.userId
           /\ Len(handled.data.words) = MaxBatch
           /\ Len(handled'.data.words) = MaxBatch
           /\ Positions = 0..(MaxBatch - 1)
           /\ 2 * MaxBatch > CAPACITY)
          => /\ Len(emitted) = MaxBatch
             /\ Len(emitted') = CAPACITY - MaxBatch
             /\ DOMAIN words' = 0..(CAPACITY - 1)
             /\ getNextPosition(state') = CAPACITY
      ]_vars

(* The race has been run: the first client's whole batch is in the grid,  *)
(* the second client's batch of MaxBatch words was cut to what was left.  *)
C3_Witness ==
    /\ handled.type = "submit-words"
    /\ Len(handled.data.words) = MaxBatch
    /\ Len(emitted) = CAPACITY - MaxBatch
    /\ Len(emitted) > 0
    /\ \A p \in 0..(MaxBatch - 1) :
          p \in Positions /\ words[p].user_id # handled.data.userId
    /\ NextPosition = CAPACITY

(* C4 as stated: on a full grid every claim that carries a word, single   *)
(* or batch, fails with GridFullError.                                    *)
C4_EveryClaimFails ==
    [][(/\ NextPosition = CAPACITY
        /\ \/ handled'.type = "submit-word"
           \/ handled'.type = "submit-words" /\ Len(handled'.data.words) > 0)
       => emitted' = <<GridFullError(handled'.socket)>>]_vars

(* C4 amended: once nextPosition = CAPACITY it stays there and no cell is *)
(* committed any more; a single-word claim fails with GridFullError, a    *)
(* batch claim does not fail: it commits nothing and emits nothing.       *)
C4_FullGridClaims ==
    [][NextPosition = CAPACITY
       => /\ getNextPosition(state') = CAPACITY
          /\ words' = words
          /\ handled'.type = "submit-word"
                => emitted' = <<GridFullError(handled'.socket)>>
          /\ handled'.type = "submit-words" => emitted' = <<>>]_vars

(* A batch of words was submitted to the full grid and nothing came back. *)
C4_Witness ==
    /\ NextPosition = CAPACITY
    /\ handled.type = "submit-words"
    /\ Len(handled.data.words) > 0
    /\ emitted = <<>>

(* C5: a submit-word on a full grid changes nothing in the store (cells,  *)
(* nextPosition, users and their counters) and emits one error event, to  *)
(* the sender alone.                                                      *)
C5_FullGridSubmitWord ==
    [][(handled'.type = "submit-word" /\ NextPosition >= CAPACITY)
       => /\ UNCHANGED <<state, words, users, image_history>>
          /\ emitted' = <<GridFullError(handled'.socket)>>
          /\ \A i \in DOMAIN emitted' : emitted'[i].to = {handled'.socket}]_vars

(* The grid is full, both clients are connected, and the one whose userId *)
(* the store has never seen got the error.                                *)
C5_Witness ==
    /\ NextPosition = CAPACITY
    /\ sockets = Sockets
    /\ handled.type = "submit-word"
    /\ handled.data.userId \notin DOMAIN users
    /\ emitted = <<GridFullError(handled.socket)>>

WordPlacedTo(s, cell) ==
    {i \in DOMAIN emitted' :
        /\ emitted'[i].type = "word-placed"
        /\ emitted'[i].data = cell
        /\ s \in emitted'[i].to}

(* C10: for every cell a handler run commits, every socket open at that   *)
(* moment, the sender's included, is sent exactly one word-placed event   *)
(* carrying the cell's record; no other word-placed event goes out.       *)
C10_WordPlacedOncePerClient ==
    [][/\ \A p \in DOMAIN words' \ Positions :
             LET w    == words'[p]
                 cell == Placed(p, w.word, w.user_id, w.user_color, w.group_id)
             IN  /\ \A s \in sockets : Cardinality(WordPlacedTo(s, cell)) = 1
                 /\ Cardinality(WordPlacedTo(handled'.socket, cell)) = 1
       /\ handled'.type \in {"submit-word", "submit-words"}
             => Cardinality({i \in DOMAIN emitted' : emitted'[i].type = "word-placed"})
                  = Cardinality(DOMAIN words' \ Positions)
      ]_vars

(* A batch of two words was committed while both clients were connected.  *)
C10_Witness ==
    /\ sockets = Sockets
    /\ handled.type = "submit-words"
    /\ Len(emitted) = 2
    /\ \A i \in DOMAIN emitted : emitted[i].type = "word-placed" /\ emitted[i].to = Sockets

GenerationRequests == {"request-generate", "POST /api/generate"}

CallEnds == {"call-returned", "call-threw"}

AlreadyInProgress(h) ==
    IF h.type = "request-generate"
    THEN socketEmit(h.socket, "generation-failed",
                    [error |-> "Generation already in progress"])
    ELSE resJson(429, [error |-> "Generation already in progress"])

(* C6: never more than one external image call is awaited; a generation   *)
(* request, by socket or by HTTP, that arrives while one is awaited is    *)
(* refused: it starts no call, adds no history row and is answered to the *)
(* requester alone.                                                       *)
C6_SingleFlight ==
    [][/\ Cardinality(calls') <= 1
       /\ (handled'.type \in GenerationRequests /\ calls # {})
          => /\ calls' = calls
             /\ image_history' = image_history
             /\ emitted' = <<AlreadyInProgress(handled')>>]_vars

(* One of each: the HTTP route was refused while the call of a socket     *)
(* request is awaited.                                                    *)
C6_Witness ==
    /\ handled.type = "POST /api/generate"
    /\ emitted = <<AlreadyInProgress(handled)>>
    /\ \E c \in calls : c.via = "socket"

C8_FailedCycleRecorded ==
    [][/\ handled'.type = "call-threw"
          => LET id == handled'.data.id
             IN  /\ image_history'[id].status = "failed"
                 /\ image_history'[id].image_path = image_history[id].image_path
       /\ \A i \in DOMAIN image_history' :
             image_history'[i].status = "generating" => \E c \in calls' : c.id = i
      ]_vars

(* C9: when the awaited call returns path P, current_image becomes P, the *)
(* cycle's history row becomes 'complete' with image_path P, and one      *)
(* generation-complete event carrying P goes to every open socket.        *)
C9_CompleteRecorded ==
    [][handled'.type = "call-returned"
       => LET P  == handled'.data.imagePath
              id == handled'.data.id
          IN  /\ getCurrentImage(state') = P
              /\ image_history'[id].status = "complete"
              /\ image_history'[id].image_path = P
              /\ \A i \in DOMAIN image_history :
                    i # id => image_history'[i] = image_history[i]
              /\ Len(emitted') = 1
              /\ emitted'[1].type = "generation-complete"
              /\ emitted'[1].data.imagePath = P
              /\ emitted'[1].to = sockets]_vars

(* A second generation has returned a path other than the first one's,    *)
(* with both clients connected.                                           *)
C9_Witness ==
    /\ handled.type = "call-returned"
    /\ sockets = Sockets
    /\ Len(image_history) = 2
    /\ image_history[1].status = "complete"
    /\ image_history[2].status = "complete"
    /\ image_history[1].image_path # image_history[2].image_path
    /\ getCurrentImage(state) = image_history[2].image_path

(* The word of the committed cell that has k - 1 committed cells below it. *)
WordAtRank(k) ==
    LET p == CHOOSE q \in Positions :
                Cardinality({r \in Positions : r < q}) = k - 1
    IN  words[p].word

RECURSIVE JoinedUpTo(_)
JoinedUpTo(k) ==
    IF k = 0 THEN ""
    ELSE IF k = 1 THEN WordAtRank(1)
    ELSE JoinedUpTo(k - 1) \o " " \o WordAtRank(k)

(* C16: after any sequence of claims getFullPromptText is the words of    *)
(* the committed cells, one per cell, in ascending order of position,     *)
(* with one blank between neighbours.                                     *)
C16_FullPromptAscending ==
    getFullPromptText(words) = JoinedUpTo(Cardinality(Positions))

(* The grid is full and its first two cells hold different words, put     *)
(* there by a single claim and a batch.                                   *)
C16_Witness ==
    /\ NextPosition = CAPACITY
    /\ words[0].word # words[1].word
    /\ handled.type = "submit-words"
    /\ Len(emitted) > 0
    /\ getFullPromptText(words) # ""

NoWords(h) ==
    IF h.type = "request-generate"
    THEN socketEmit(h.socket, "generation-failed",
                    [error |-> "No words to generate from"])
    ELSE resJson(400, [error |-> "No words to generate from"])

(* C17: a generation request that finds the flag set is refused as        *)
(* 'already in progress'; one that finds the flag clear and no committed  *)
(* cell is refused as 'no words'.  A refused request changes neither the  *)
(* store nor the flag, awaits no call, and its one answer goes to the     *)
(* requester alone.                                                       *)
C17_RefusedRequests ==
    [][handled'.type \in GenerationRequests
       => /\ isGenerating => emitted' = <<AlreadyInProgress(handled')>>
          /\ (~isGenerating /\ getWordCount(words) = 0)
                => emitted' = <<NoWords(handled')>>
          /\ (isGenerating \/ getWordCount(words) = 0)
                => /\ UNCHANGED <<state, words, users, image_history,
                                  isGenerating, lastGenerationTime, calls>>
                   /\ Len(emitted') = 1
                   /\ emitted'[1].to = {handled'.socket}]_vars

(* A socket request was refused for want of words while another client    *)
(* was connected.                                                         *)
C17_Witness ==
    /\ handled.type = "request-generate"
    /\ emitted = <<NoWords(handled)>>
    /\ sockets = Sockets
    /\ ~isGenerating
    /\ image_history = <<>>

(* C18: a batch claim of zero words returns an empty result and leaves    *)
(* the store as it was: cells, nextPosition, user rows and counters.      *)
C18_EmptyBatchNoEffect ==
    [][(handled'.type = "submit-words" /\ Len(handled'.data.words) = 0)
       => /\ emitted' = <<>>
          /\ UNCHANGED <<state, words, users, image_history>>]_vars

CarriesEmptyWord(h) ==
    \/ h.type = "submit-word" /\ h.data.word = ""
    \/ h.type = "submit-words" /\ \E i \in DOMAIN h.data.words : h.data.words[i] = ""

(* C19: a submission that carries an empty word changes nothing in the    *)
(* store, and the word of every committed cell is non-empty.              *)
C19_EmptyWordRejected ==
    [][/\ CarriesEmptyWord(handled') => UNCHANGED <<state, words, users>>
       /\ \A p \in DOMAIN words' : words'[p].word # ""]_vars

(* The cells a Map holds, whatever the order it holds them in. *)
CellsOf(ws) ==
    [p \in {ws[i].pos : i \in DOMAIN ws} |-> get(ws, p)]

(* C13: two pages whose Maps hold the same cells get the same groups from *)
(* _buildGroups, in the same order and with the same cells, whatever the  *)
(* order of the setWord calls that filled each Map.                       *)
C13_GroupsDeterministic ==
    \A a, b \in Sockets :
        CellsOf(client[a].words) = CellsOf(client[b].words)
        => buildGroups(client[a].words) = buildGroups(client[b].words)

(* The two Maps hold the same full grid in different orders, and a group  *)
(* of two cells is among the groups.                                      *)
C13_Witness ==
    /\ CellsOf(client["s1"].words) = CellsOf(client["s2"].words)
    /\ client["s1"].words # client["s2"].words
    /\ Len(client["s1"].words) = CAPACITY
    /\ LET groups == buildGroups(client["s1"].words)
       IN  \E i \in DOMAIN groups : Len(groups[i].cells) = 2

GroupsAt(groups, p) ==
    {i \in DOMAIN groups :
        \E j \in DOMAIN groups[i].cells : groups[i].cells[j].pos = p}

(* C14: a cell whose group id is null or empty is a group of its own: it  *)
(* is the only cell of the one group it is in.                            *)
C14_NoGroupIdIsSingleton ==
    \A s \in Sockets :
        LET ws     == client[s].words
            groups == buildGroups(ws)
        IN  \A k \in DOMAIN ws :
                ~truthy(ws[k].data.group_id)
                => /\ Cardinality(GroupsAt(groups, ws[k].pos)) = 1
                   /\ \A i \in GroupsAt(groups, ws[k].pos) :
                         Len(groups[i].cells) = 1

(* Two neighbours in the first row, neither with a group id, in a full    *)
(* grid that also holds a cell with one: every cell is a group.           *)
C14_Witness ==
    LET ws == client["s1"].words
    IN  /\ has(ws, 0) /\ has(ws, 1)
        /\ ~truthy(get(ws, 0).group_id)
        /\ ~truthy(get(ws, 1).group_id)
        /\ Len(buildGroups(ws)) = Len(ws)
        /\ Len(ws) = CAPACITY
        /\ \E p \in GridPositions : has(ws, p) /\ truthy(get(ws, p).group_id)

(* C15: two cells at consecutive positions of one row that carry the same *)
(* non-empty group id are in the same group.                              *)
C15_RunsAreMaximal ==
    \A s \in Sockets :
        LET ws     == client[s].words
            groups == buildGroups(ws)
        IN  \A p \in GridPositions :
                (/\ has(ws, p) /\ has(ws, p + 1)
                 /\ get(ws, p).row = get(ws, p + 1).row
                 /\ truthy(get(ws, p).group_id)
                 /\ get(ws, p).group_id = get(ws, p + 1).group_id)
                => /\ GroupsAt(groups, p) = GroupsAt(groups, p + 1)
                   /\ Cardinality(GroupsAt(groups, p)) = 1

(* "cat" then "hat" side by side in the first row under one group id, put *)
(* into the Map right to left: one group spanning both.                   *)
C15_Witness ==
    LET ws == client["s1"].words
    IN  /\ Len(ws) >= 2
        /\ ws[1].pos = 1 /\ ws[2].pos = 0
        /\ get(ws, 0).word = "cat" /\ get(ws, 1).word = "hat"
        /\ get(ws, 0).group_id = "k1" /\ get(ws, 1).group_id = "k1"
        /\ LET groups == buildGroups(ws)
           IN  \E i \in DOMAIN groups :
                  /\ Len(groups[i].cells) = 2
                  /\ groups[i].startCol = 0
                  /\ groups[i].endCol = 1

LocalCells(s) ==
    LET ws == client[s].words
    IN  [p \in {ws[i].pos : i \in DOMAIN ws} |-> wordData(get(ws, p))]

Settled == \A s \in Sockets : inbox[s] = <<>> /\ outbox[s] = <<>>

(* C11: once nothing is in flight any more, the Map of every connected    *)
(* page holds exactly the committed cells: the same positions, each with  *)
(* the committed word, user, color and group.                             *)
C11_PagesHoldCommittedCells ==
    Settled => \A s \in sockets : LocalCells(s) = words

PagePops(s, type) ==
    /\ inbox[s] # <<>>
    /\ Head(inbox[s]).type = type
    /\ inbox'[s] = Tail(inbox[s])

(* C12: when a page handles a word-placed event, its cursor becomes the   *)
(* event's position + 1 if that position is at or beyond the cursor, and  *)
(* stays where it is otherwise; either way it ends beyond the position.   *)
C12_CursorPassesEvent ==
    [][\A s \in Sockets :
         PagePops(s, "word-placed")
         => LET position == Head(inbox[s]).data.position
                before   == client[s].cursorPosition
                after    == client'[s].cursorPosition
            IN  /\ position >= before => after = position + 1
                /\ position < before => after = before
                /\ after > position]_vars

(* The first page has just handled the echo of its own word, for the cell *)
(* behind its cursor, and holds a word of the second page, whose event    *)
(* had found the cursor at or before its cell.                            *)
C12_Witness ==
    /\ handled.type = "word-placed"
    /\ handled.socket = "s1"
    /\ handled.data.user_id = "u1"
    /\ handled.data.position < client["s1"].cursorPosition
    /\ \E i \in DOMAIN client["s1"].words :
          /\ client["s1"].words[i].data.user_id = "u2"
          /\ client["s1"].words[i].pos < handled.data.position

(* C20: a cell committed once a generation has completed carries a group *)
(* id that none of the cells of that generation, the first word_count     *)
(* cells, carries.                                                        *)
C20_FreshGroupAfterComplete ==
    [][\A q \in DOMAIN words' \ DOMAIN words :
         \A i \in DOMAIN image_history :
            image_history[i].status = "complete"
            => \A p \in DOMAIN words :
                  p < image_history[i].word_count
                  => words'[q].group_id # words[p].group_id]_vars

(* C21: the connection handler emits one event, initial-state, to the    *)
(* new socket alone; the cells it carries are the committed cells in      *)
(* ascending order of position, and its nextPosition and its wordCount    *)
(* both equal the number of cells it carries.                             *)
C21_SnapshotConsistent ==
    [][handled'.type = "connection"
       => /\ Len(emitted') = 1
          /\ emitted'[1].type = "initial-state"
          /\ emitted'[1].to = {handled'.socket}
          /\ LET data == emitted'[1].data
             IN  /\ \A i \in 1..(Len(data.words) - 1) :
                       data.words[i].position < data.words[i + 1].position
                 /\ {data.words[i].position : i \in DOMAIN data.words} = Positions
                 /\ \A i \in DOMAIN data.words :
                       wordData(data.words[i]) = words[data.words[i].position]
                 /\ data.nextPosition = Len(data.words)
                 /\ data.wordCount = Len(data.words)]_vars

(* A client connects to a full grid, filled by both users, while the      *)
(* other client is connected.                                             *)
C21_Witness ==
    /\ handled.type = "connection"
    /\ sockets = Sockets
    /\ Len(emitted) = 1
    /\ Len(emitted[1].data.words) = CAPACITY
    /\ Cardinality(UsersOfCells) = 2

(* The online counts a handler run sent out. *)
OnlineCounts ==
    {emitted'[i].data.onlineUsers :
        i \in {j \in DOMAIN emitted' : emitted'[j].type = "initial-state"}}
    \cup {emitted'[i].data.count :
        i \in {j \in DOMAIN emitted' : emitted'[j].type = "users-update"}}

(* C22: every online count sent, in initial-state and in users-update, is *)
(* the number of sockets open at that moment; and when a client has       *)
(* connected (its register is handled) or has disconnected, a             *)
(* users-update goes to every open socket.                                *)
C22_OnlineCountIsConnected ==
    [][/\ \A n \in OnlineCounts : n = Cardinality(sockets')
       /\ handled'.type \in {"register", "disconnect"}
             => \E i \in DOMAIN emitted' :
                   /\ emitted'[i].type = "users-update"
                   /\ emitted'[i].to = sockets']_vars

(* The number of words a submission carries. *)
WordsCarried(h) == IF h.type = "submit-word" THEN 1 ELSE Len(h.data.words)

(* C23: a submit-word or submit-words handled while an image call is      *)
(* awaited is claimed, committed and broadcast in that same handler run,  *)
(* as far as the grid has room, and the call is still awaited afterwards. *)
C23_ClaimsDoNotWaitForImage ==
    [][(handled'.type \in {"submit-word", "submit-words"} /\ calls # {})
       => LET k == Min(WordsCarried(handled'), CAPACITY - NextPosition)
          IN  /\ DOMAIN words' \ Positions = NextPosition..(NextPosition + k - 1)
              /\ getNextPosition(state') = NextPosition + k
              /\ \A p \in DOMAIN words' \ Positions :
                    \E i \in DOMAIN emitted' :
                       /\ emitted'[i].type = "word-placed"
                       /\ emitted'[i].data.position = p
                       /\ emitted'[i].to = sockets
              /\ calls' = calls
              /\ isGenerating' = isGenerating]_vars

(* A batch of two words was committed and broadcast to both clients while *)
(* the image call of a generation is awaited.                             *)
C23_Witness ==
    /\ handled.type = "submit-words"
    /\ calls # {}
    /\ isGenerating
    /\ sockets = Sockets
    /\ Len(emitted) = 2
    /\ \A i \in DOMAIN emitted : emitted[i].type = "word-placed"

(* A handler run broadcast generation-started. *)
BroadcastsStarted ==
    \E i \in DOMAIN emitted' : emitted'[i].type = "generation-started"

(* The events a handler run sent that end a cycle for those who get them. *)
EndEvents ==
    {i \in DOMAIN emitted' :
        emitted'[i].type \in {"generation-complete", "generation-failed"}}

CycleOpen(id) == \E c \in calls : c.id = id

CycleEnded(id) ==
    /\ ~CycleOpen(id)
    /\ handled.type \in CallEnds
    /\ handled.data.id = id

SameOutcome ==
    handled'.type \in CallEnds
    => /\ Len(emitted') = 1
       /\ emitted'[1].to = sockets
       /\ emitted'[1].type = IF handled'.type = "call-returned"
                             THEN "generation-complete" ELSE "generation-failed"
       /\ ~isGenerating'

(* C25 as stated: an accepted generation makes the text-only request      *)
(* exactly when current_image is unset at the trigger and the request     *)
(* that evolves the image exactly when it is set; the outcome is the same *)
(* on both paths.                                                         *)
C25_PathByCurrentImage ==
    [][/\ \A c \in calls' \ calls :
             /\ c.request = "text-to-image" <=> getCurrentImage(state) = ""
             /\ c.request = "image-to-image" <=> getCurrentImage(state) # ""
       /\ SameOutcome]_vars

(* C25 amended: the handler awaits generateFromText exactly when          *)
(* current_image is unset at the trigger and evolveImage exactly when it  *)
(* is set; the image is sent only by evolveImage, which makes the         *)
(* text-only request instead when it does not find the file; the outcome  *)
(* is the same on every path.                                             *)
C25_CallByCurrentImage ==
    [][/\ \A c \in calls' \ calls :
             /\ c.fn = "generateFromText" <=> getCurrentImage(state) = ""
             /\ c.fn = "evolveImage" <=> getCurrentImage(state) # ""
             /\ c.fn = "generateFromText" => c.request = "text-to-image"
             /\ c.request = "image-to-image" => c.fn = "evolveImage"
             /\ c.request \in {"text-to-image", "image-to-image"}
       /\ SameOutcome]_vars

(* The first cycle, triggered with no image, has completed; the second,   *)
(* triggered with that image set, has completed too, with another image.  *)
C25_Witness ==
    /\ handled.type = "call-returned"
    /\ handled.data.id = 2
    /\ image_history[1].status = "complete"
    /\ image_history[2].status = "complete"
    /\ emitted[1].type = "generation-complete"
    /\ image_history[2].word_count > image_history[1].word_count
    /\ ~isGenerating

(* C26: a user row is created by a register or a claim of that user,     *)
(* with one of the USER_COLORS; the color of a row never changes; the     *)
(* color a register answers and keeps for the socket is the row's; and    *)
(* every committed cell, and every word-placed event, carries the color   *)
(* of its user's row.                                                     *)
C26_ColorChosenOnce ==
    [][/\ \A u \in DOMAIN users :
             u \in DOMAIN users' /\ users'[u].color = users[u].color
       /\ \A u \in DOMAIN users' \ DOMAIN users :
             /\ handled'.type \in {"register", "submit-word", "submit-words"}
             /\ handled'.data.userId = u
             /\ users'[u].color \in USER_COLORS
       /\ \A p \in DOMAIN words' :
             /\ words'[p].user_id \in DOMAIN users'
             /\ words'[p].user_color = users'[words'[p].user_id].color
       /\ handled'.type = "register"
             => /\ connectedUsers'[handled'.socket].color
                     = users'[handled'.data.userId].color
                /\ \E i \in DOMAIN emitted' :
                      emitted'[i] = socketEmit(handled'.socket, "user-registered",
                                      [color |-> users'[handled'.data.userId].color])
       /\ \A i \in DOMAIN emitted' :
             emitted'[i].type = "word-placed"
             => emitted'[i].data.user_color = users'[emitted'[i].data.user_id].color
      ]_vars

(* A user who has cells registers and is answered the color of its cells, *)
(* while the other user, who has cells too, has the other color.          *)
C26_Witness ==
    /\ handled.type = "register"
    /\ LET u == handled.data.userId
       IN  /\ users[u].words_contributed > 0
           /\ \E p \in Positions : words[p].user_id = u
           /\ \A s \in DOMAIN connectedUsers : connectedUsers[s].userId = u
           /\ \E v \in DOMAIN users :
                 /\ users[v].color # users[u].color
                 /\ \E p \in Positions : words[p].user_id = v
    /\ Cardinality(DOMAIN connectedUsers) = 1

RECURSIVE RemoveWhitespace(_)
RemoveWhitespace(str) ==
    IF str = "" THEN ""
    ELSE IF isWhitespace(Head(str)) THEN RemoveWhitespace(Tail(str))
    ELSE Head(str) \o RemoveWhitespace(Tail(str))

RECURSIVE Concat(_)
Concat(seq) == IF seq = <<>> THEN "" ELSE Head(seq) \o Concat(Tail(seq))

(* The number of maximal runs of characters other than white space. *)
RECURSIVE Runs(_, _)
Runs(str, inWord) ==
    IF str = "" THEN 0
    ELSE IF isWhitespace(Head(str)) THEN Runs(Tail(str), FALSE)
    ELSE (IF inWord THEN 0 ELSE 1) + Runs(Tail(str), TRUE)

(* pasted is the text cut at its white space: as many words as the text   *)
(* has runs, none empty, none with white space, together all of its other *)
(* characters in order.                                                   *)
WordsOfText(text, pasted) ==
    /\ Len(pasted) = Runs(text, FALSE)
    /\ \A i \in DOMAIN pasted :
          pasted[i] # "" /\ RemoveWhitespace(pasted[i]) = pasted[i]
    /\ Concat(pasted) = RemoveWhitespace(text)

(* What a paste does on a page that takes input. *)
PasteTaken(s, text) ==
    LET c == client[s]
        n == Runs(text, FALSE)
        k == IF trim(c.currentWord) # "" THEN 1 ELSE 0
    IN  /\ n >= 2
           => /\ Len(outbox'[s]) = Len(outbox[s]) + 1
              /\ SubSeq(outbox'[s], 1, Len(outbox[s])) = outbox[s]
              /\ LET m == outbox'[s][Len(outbox'[s])]
                 IN  /\ m.type = "submit-words"
                     /\ m.data.userId = UserOf(s)
                     /\ m.data.groupId = c.currentGroupId
                     /\ Len(m.data.words) = k + n
                     /\ k = 1 => m.data.words[1] = trim(c.currentWord)
                     /\ WordsOfText(text, SubSeq(m.data.words, k + 1, k + n))
              /\ client'[s] = [c EXCEPT !.currentWord = ""]
        /\ n = 1
           => /\ outbox' = outbox
              /\ client'[s] = [c EXCEPT !.currentWord = @ \o RemoveWhitespace(text)]
        /\ n = 0 => outbox' = outbox /\ client' = client

(* C27 as stated: on every paste, a text of two or more words is sent as  *)
(* one submit-words request, the buffer (trimmed, when not empty) first   *)
(* and the pasted words after it, under the page's current group id, and  *)
(* the buffer is emptied; a text of one word is appended to the buffer    *)
(* and nothing is sent.                                                   *)
C27_PasteAsStated ==
    [][handled'.type = "paste"
       => PasteTaken(handled'.socket, handled'.data.text)]_vars

(* C27 amended: the same, on a page whose isGenerating is not set; while  *)
(* it is set a paste changes nothing and sends nothing.                   *)
C27_PasteBatches ==
    [][handled'.type = "paste"
       => IF client[handled'.socket].isGenerating
          THEN outbox' = outbox /\ client' = client
          ELSE PasteTaken(handled'.socket, handled'.data.text)]_vars

(* With "c" typed, a text of two words with white space around them was   *)
(* pasted: one request of three words, and the buffer is empty.           *)
C27_Witness ==
    /\ handled.type = "paste"
    /\ handled.data.text = " hat \n cat "
    /\ client["s1"].currentWord = ""
    /\ Len(outbox["s1"]) = 1
    /\ outbox["s1"][1].type = "submit-words"
    /\ outbox["s1"][1].data.words = <<"c", "hat", "cat">>
    /\ outbox["s1"][1].data.groupId = client["s1"].currentGroupId

(* The rounding of one operation whose exact result has the size a: none *)
(* while the result is a number of the model.                             *)
Rounding(a) == IF Quantum(a) = 1 THEN 0 ELSE Quantum(a)

(* at is what from + (to - from) can come to: each of the two operations  *)
(* is off by at most half the distance between neighbouring numbers.      *)
WithinRounding(at, from, to) ==
    2 * Abs(at - to)
        <= Rounding(Abs(to - from))
           + Rounding(Abs(to) + Rounding(Abs(to - from)))

Fields == {"x", "y", "zoom"}

(* The ways a running animation ends or goes on in one step of page s. *)
EndsAtTarget(s) ==
    /\ handled'.type = "frame"
    /\ client'[s].grid.cameraAnim = <<>>
    /\ client'[s].grid.camera = client[s].grid.cameraAnim[1].to

EndsNearTarget(s) ==
    /\ handled'.type = "frame"
    /\ client'[s].grid.cameraAnim = <<>>
    /\ \A f \in Fields :
          WithinRounding(client'[s].grid.camera[f],
                         client[s].grid.cameraAnim[1].from[f],
                         client[s].grid.cameraAnim[1].to[f])

Cancelled(s) ==
    /\ handled'.type \in {"mousedown", "wheel"}
    /\ client'[s].grid.cameraAnim = <<>>

Replaced(s) ==
    /\ handled'.type = "animateTo"
    /\ client'[s].grid.cameraAnim # <<>>
    /\ client'[s].grid.cameraAnim[1].from = client[s].grid.camera
    /\ client'[s].grid.cameraAnim[1].start = client[s].grid.now
    /\ client'[s].grid.camera = client[s].grid.camera

(* What holds of every step whatever way the animation ends: a frame that *)
(* finds the time run out ends it, a mouse-down or a wheel event ends it, *)
(* and a frame that finds no animation leaves the camera alone.           *)
TicksAndCancels(s) ==
    LET v  == client[s].grid
        v2 == client'[s].grid
    IN  /\ (/\ handled'.type = "frame"
            /\ v.cameraAnim # <<>>
            /\ v2.now - v.cameraAnim[1].start >= v.cameraAnim[1].duration)
           => v2.cameraAnim = <<>>
        /\ handled'.type \in {"mousedown", "wheel"} => v2.cameraAnim = <<>>
        /\ (handled'.type = "frame" /\ v.cameraAnim = <<>>)
           => v2.camera = v.camera /\ v2.cameraAnim = <<>>

Running(s) == client[s].grid.cameraAnim # <<>>

AnimationOver(s) ==
    client[s].grid.cameraAnim # <<>>
    /\ client'[s].grid.cameraAnim # client[s].grid.cameraAnim

(* C28 as stated: a running animation is over only by the frame that puts *)
(* the camera exactly at its target, position and zoom, or by a           *)
(* mouse-down or wheel event, after which frames leave the camera alone;  *)
(* and every animation is over in the end.                                *)
C28_AnimationReachesTarget ==
    /\ [][\A s \in Sockets :
             /\ AnimationOver(s) => EndsAtTarget(s) \/ Cancelled(s)
             /\ TicksAndCancels(s)]_vars
    /\ \A s \in Sockets : Running(s) ~> ~Running(s)

(* C28 amended: a running animation is over by the frame that finds its   *)
(* time run out, which leaves the camera at from + (to - from) as         *)
(* rounded, by a mouse-down or wheel event, or by the next call of        *)
(* animateTo, which starts anew from where the camera is; frames that     *)
(* find no animation leave the camera alone; and every animation is over  *)
(* in the end.                                                            *)
C28_AnimationEnds ==
    /\ [][\A s \in Sockets :
             /\ AnimationOver(s)
                => EndsNearTarget(s) \/ Cancelled(s) \/ Replaced(s)
             /\ TicksAndCancels(s)]_vars
    /\ \A s \in Sockets : Running(s) ~> ~Running(s)

(* A frame has ended an animation with the camera over the last cell at   *)
(* the zoom of jumpToCursor, away from where the page loaded it.          *)
C28_Witness ==
    /\ handled.type = "frame"
    /\ ~Running("s1")
    /\ client["s1"].grid.now >= jumpDuration
    /\ client["s1"].grid.camera = cameraOver(CAPACITY - 1, jumpZoom)
    /\ client["s1"].grid.camera # WordGridLoaded.camera

(* The cells whose rectangle on the canvas holds the point of the window. *)
CellsUnder(v, e) ==
    {position \in 0..(gridRows * gridCols - 1) :
        LET left == v.camera.x + (position % gridCols) * cellWidth * v.camera.zoom
            top  == v.camera.y + (position \div gridCols) * cellHeight * v.camera.zoom
            px   == e.clientX - canvasLeft
            py   == e.clientY - canvasTop
        IN  /\ left <= px /\ px < left + cellWidth * v.camera.zoom
            /\ top <= py /\ py < top + cellHeight * v.camera.zoom}

ClicksDispatched(v) == {v.dispatched[i].position : i \in DOMAIN v.dispatched}

(* The pointer is farther than the threshold from where it was pressed. *)
BeyondThreshold(v, e) ==
    \/ Abs(e.clientX - v.mouseDownPos.x) > dragThreshold
    \/ Abs(e.clientY - v.mouseDownPos.y) > dragThreshold

(* C29: hasDragged says whether the pointer has been beyond the threshold *)
(* since it was pressed, and the release of a press dispatches one click  *)
(* for the cell under the pointer when it has not (none off the grid),    *)
(* no click when it has; no other event dispatches one.                   *)
C29_ClickOrPan ==
    [][\A s \in Sockets :
          LET v  == client[s].grid
              v2 == client'[s].grid
              e  == handled'.data
          IN  /\ (handled'.type = "mousedown" /\ handled'.socket = s)
                 => ~v2.hasDragged /\ v2.isDragging
                    /\ v2.mouseDownPos = [x |-> e.clientX, y |-> e.clientY]
              /\ (handled'.type = "mousemove" /\ handled'.socket = s)
                 => /\ v2.hasDragged = (v.hasDragged \/ BeyondThreshold(v, e))
                    /\ v2.mouseDownPos = v.mouseDownPos
              /\ (handled'.type = "mouseup" /\ handled'.socket = s /\ v.isDragging)
                 => /\ Len(v2.dispatched) <= 1
                    /\ ClicksDispatched(v2) =
                          IF v.hasDragged THEN {} ELSE CellsUnder(v, e)
              /\ ~(handled'.type = "mouseup" /\ handled'.socket = s)
                 => v2.dispatched = <<>>]_vars

(* C30: the groups of _buildGroups partition the cells of the Map: every  *)
(* cell is in exactly one group, once; every cell of a group is a cell of *)
(* the Map; and the cells of a group follow each other position by        *)
(* position, lie in the one row of the grid the group names, and carry    *)
(* the group's group id.                                                  *)
C30_GroupsPartition ==
    \A s \in Sockets :
        LET ws     == client[s].words
            groups == buildGroups(ws)
        IN  /\ \A k \in DOMAIN ws : Cardinality(GroupsAt(groups, ws[k].pos)) = 1
            /\ \A i \in DOMAIN groups :
                  LET cells == groups[i].cells
                  IN  /\ cells # <<>>
                      /\ \A j \in DOMAIN cells :
                            /\ has(ws, cells[j].pos)
                            /\ cells[j].pos \div gridCols = groups[i].row
                            /\ cells[j].row = groups[i].row
                            /\ get(ws, cells[j].pos).group_id = groups[i].group_id
                            /\ j > 1 => cells[j].pos = cells[j - 1].pos + 1

(* Every cell of the grid carries the same group id: the first row is one *)
(* group of gridCols cells and the run ends there, so that the first cell *)
(* of the second row starts a group of its own.                           *)
C30_Witness ==
    LET ws     == client["s1"].words
        groups == buildGroups(ws)
    IN  /\ Len(ws) = CAPACITY
        /\ \A k \in DOMAIN ws : ws[k].data.group_id = "g1"
        /\ Len(groups) = gridRows
        /\ Len(groups[1].cells) = gridCols
        /\ groups[2].cells[1].pos = gridCols

(* The cells a step commits. *)
NewCells == DOMAIN words' \ DOMAIN words

(* C31: the cells one submit-words request commits are the positions from *)
(* nextPosition on, one for each word in the order submitted until the    *)
(* grid is full, all of the sender and all under one group id, that of    *)
(* the request when it names one; and the cells of every other claim,     *)
(* earlier or later, lie outside that run: a claim changes no committed   *)
(* cell and commits beyond every committed cell.                          *)
C31_BatchIsOneRun ==
    [][/\ handled'.type = "submit-words"
          => LET ws == handled'.data.words
                 k  == Min(Len(ws), CAPACITY - NextPosition)
             IN  /\ NewCells = NextPosition..(NextPosition + k - 1)
                 /\ \A i \in 1..k :
                       /\ words'[NextPosition + i - 1].word = ws[i]
                       /\ words'[NextPosition + i - 1].user_id = handled'.data.userId
                 /\ \A p, q \in NewCells : words'[p].group_id = words'[q].group_id
                 /\ \A p \in NewCells :
                       /\ truthy(words'[p].group_id)
                       /\ handled'.data.groupId # ""
                          => words'[p].group_id = handled'.data.groupId
       /\ \A p \in NewCells : \A q \in DOMAIN words : q < p
       /\ \A q \in DOMAIN words : q \in DOMAIN words' /\ words'[q] = words[q]
      ]_vars

(* A batch of two different words has been committed whole behind a cell  *)
(* of the other client.                                                   *)
C31_Witness ==
    /\ handled.type = "submit-words"
    /\ Len(handled.data.words) = 2
    /\ handled.data.words[1] # handled.data.words[2]
    /\ Len(emitted) = 2
    /\ NextPosition = 3
    /\ words[0].user_id # handled.data.userId
    /\ words[1].user_id = handled.data.userId
    /\ words[2].user_id = handled.data.userId

CellsOfUser(ws, u) == {p \in DOMAIN ws : ws[p].user_id = u}

(* C32: every user's words_contributed is the number of committed cells   *)
(* that carry the userId, and every cell's user has a row; the counter of *)
(* a user never goes down, and a step raises the counter of the claimant  *)
(* by the number of cells the step commits and no other counter.          *)
C32_CounterIsCellCount ==
    /\ [](/\ \A p \in DOMAIN words : words[p].user_id \in DOMAIN users
          /\ \A u \in DOMAIN users :
                users[u].words_contributed = Cardinality(CellsOfUser(words, u)))
    /\ [][/\ DOMAIN users \subseteq DOMAIN users'
          /\ \A u \in DOMAIN users' :
                LET before == IF u \in DOMAIN users
                              THEN users[u].words_contributed ELSE 0
                    after  == users'[u].words_contributed
                IN  /\ after >= before
                    /\ after - before =
                         IF handled'.type \in {"submit-word", "submit-words"}
                            /\ handled'.data.userId = u
                         THEN Cardinality(NewCells) ELSE 0]_vars

(* A batch of two words has been cut to the one cell that was left, and   *)
(* the counter of its user, who had a cell before, stands at two; the     *)
(* other user has the third cell.                                         *)
C32_Witness ==
    /\ handled.type = "submit-words"
    /\ Len(handled.data.words) = 2
    /\ Len(emitted) = 1
    /\ users[handled.data.userId].words_contributed = 2
    /\ \E u \in DOMAIN users : u # handled.data.userId /\ users[u].words_contributed = 1

(* C33: in every state of the authority nextPosition is the number of    *)
(* committed cells and lies in 0 .. CAPACITY, every committed cell has a  *)
(* position in 0 .. CAPACITY - 1, and no step lowers nextPosition.        *)
C33_NextPositionBounded ==
    /\ [](/\ NextPosition = getWordCount(words)
          /\ NextPosition \in 0..CAPACITY
          /\ DOMAIN words \subseteq 0..(CAPACITY - 1))
    /\ [][getNextPosition(state') >= NextPosition]_vars

(* The grid is full, an image has been asked for, and a further word has  *)
(* just been refused.                                                     *)
C33_Witness ==
    /\ NextPosition = CAPACITY
    /\ getWordCount(words) = CAPACITY
    /\ Len(image_history) = 1
    /\ handled.type = "submit-word"
    /\ emitted = <<GridFullError(handled.socket)>>

(* The committed cell at p is in the Map of page s as committed, or is on *)
(* its way to it: in a snapshot or in a word-placed event that the page   *)
(* has not handled yet.                                                   *)
HeldBy(s, p) ==
    has(client[s].words, p) /\ wordData(get(client[s].words, p)) = words[p]

OnItsWayTo(s, p) ==
    \E i \in DOMAIN inbox[s] :
        LET e == inbox[s][i]
        IN  \/ /\ e.type = "word-placed"
               /\ e.data.position = p
               /\ wordData(e.data) = words[p]
            \/ /\ e.type = "initial-state"
               /\ \E j \in DOMAIN e.data.words :
                     /\ e.data.words[j].position = p
                     /\ wordData(e.data.words[j]) = words[p]

(* C34: whatever the interleaving of a connect with the claims of the     *)
(* pages, no connected page misses a committed cell: the cell has reached *)
(* its Map, or the snapshot or the word-placed event that carries it is   *)
(* waiting for the page.                                                  *)
C34_NoCellMissed ==
    \A s \in sockets : \A p \in DOMAIN words : HeldBy(s, p) \/ OnItsWayTo(s, p)

(* The second page connected between two claims of the first: its         *)
(* snapshot, not handled yet, holds the first cell alone, and the event   *)
(* for the second cell waits behind it.                                   *)
C34_Witness ==
    /\ Len(inbox["s2"]) = 2
    /\ inbox["s2"][1].type = "initial-state"
    /\ Len(inbox["s2"][1].data.words) = 1
    /\ inbox["s2"][2].type = "word-placed"
    /\ inbox["s2"][2].data.position = 1
    /\ client["s2"].words = <<>>
    /\ getWordCount(words) = 2

(* What page s has sent in a step. *)
SentBy(s) ==
    IF Len(outbox'[s]) > Len(outbox[s])
    THEN {outbox'[s][i].type : i \in (Len(outbox[s]) + 1)..Len(outbox'[s])}
    ELSE {}

(* C35: while a generation cycle is open on the server, a page whose      *)
(* isGenerating is set (it has handled the cycle's generation-started)    *)
(* keeps it set until the step that closes the cycle, and a page whose    *)
(* isGenerating is set sends no submit-word, submit-words or              *)
(* request-generate.                                                      *)
C35_LockedWhileGenerating ==
    [][\A s \in Sockets :
          /\ (isGenerating /\ isGenerating' /\ client[s].isGenerating)
             => client'[s].isGenerating
          /\ client[s].isGenerating
             => SentBy(s) \cap {"submit-word", "submit-words", "request-generate"} = {}
      ]_vars

(* The request h is one the store must reject: a single word on a full   *)
(* grid or with the word missing, or a batch with a word missing among    *)
(* those there is room for.                                               *)
MustFail(h) ==
    \/ /\ h.type = "submit-word"
       /\ (h.data.word = null \/ NextPosition >= CAPACITY)
    \/ /\ h.type = "submit-words"
       /\ \E i \in 1..Min(Len(h.data.words), CAPACITY - NextPosition) :
             h.data.words[i] = null

(* C36: a claim that fails, at its first write or after some of them,     *)
(* leaves the store as it was: cells, nextPosition, the counters and the  *)
(* user rows, with no row for a user the call would have created; the     *)
(* sender alone is told of the error.                                     *)
C36_FailedClaimRollsBack ==
    [][MustFail(handled')
       => /\ UNCHANGED <<state, words, users, image_history>>
          /\ Len(emitted') = 1
          /\ emitted'[1].type = "error"
          /\ emitted'[1].to = {handled'.socket}]_vars

(* A batch whose second word is missing has been refused: there was room  *)
(* for both words, its first word is in no cell, and its user, whom the   *)
(* store had never seen, has no row; a cell of the other user is there.   *)
C36_Witness ==
    /\ handled.type = "submit-words"
    /\ handled.data.words = <<"cat", null>>
    /\ handled.data.userId \notin DOMAIN users
    /\ NextPosition = 1
    /\ getWordCount(words) = 1
    /\ Len(emitted) = 1
    /\ emitted[1].type = "error"

(* C37: on every page the cursor stands in 0 .. CAPACITY and every cell   *)
(* of its Map has a position in 0 .. CAPACITY - 1, whatever the page has  *)
(* typed, pasted and been sent.                                           *)
C37_PageWithinGrid ==
    \A s \in Sockets :
        /\ client[s].cursorPosition \in 0..CAPACITY
        /\ \A i \in DOMAIN client[s].words :
              client[s].words[i].pos \in 0..(CAPACITY - 1)

====
